---- MODULE Spec2Model ----
(***************************************************************************)
(* Model of the WhatsApp summarizer's summarization pipeline               *)
(* (summarizeWithLLM), its chunker (createTokenBasedChunks), the message   *)
(* formatter (formatMessageCompact) and the prompt templates.              *)
(*                                                                         *)
(* Text is modelled as a sequence of atoms.  An atom stands for a piece of *)
(* text that the program treats as a unit: a formatted message line, the   *)
(* newline that join() inserts, the fixed text of a prompt template, a     *)
(* completion returned by the service.  Every atom carries its length in   *)
(* characters and its token count, so the empty string is the empty        *)
(* sequence, concatenation is \o, equality of strings is equality of       *)
(* sequences, and countTokens is the sum of the atoms' token counts.       *)
(***************************************************************************)
EXTENDS Integers, Sequences, FiniteSets, TLC

(***************************************************************************)
(* Bounds of the model.                                                    *)
(***************************************************************************)
\* longest message list of plain messages given to summarizeWithLLM
MaxMsgs == 5
\* longest message list drawn over all the kinds of message
MaxMixedMsgs == 3
\* the split pass is followed while the chunk list has fewer than
\* MaxMsgs + MaxExtraChunks chunks (a list of n lines needs at most n chunks)
MaxExtraChunks == 2
\* token count of a long completion returned by the service
LargeResponseTokens == 2400
\* longest message list given to the chunker alone
MaxChunkerMsgs == 3
\* lines entered at the command prompt
MaxInputs == 3
\* longest message list given to each of two concurrent invocations
MaxPairMsgs == 3
\* message_create events followed
MaxEvents == 4
\* of which !summarize commands
MaxCommands == 1
\* config.whatsapp.autoSummaryThreshold: AUTO_SUMMARY_THRESHOLD of the
\* environment (250 when unset), here a small positive value
autoSummaryThreshold == 2

(***************************************************************************)
(* Program constants.                                                      *)
(***************************************************************************)
maxContextForMessages == 3000
systemOverheadTokens == 500
maxMsgLength == 200
maxQuotedLength == 60
BATCH_SIZE == 2
\* the prompt-size limit of a chunk step
maxPromptTokens == 3800
\* the joined token count above which the split pass splits a chunk
maxSplitTokens == 2000
maxCompletionTokens == 900
\* length of "... [message truncated due to length]"
TruncationMarkerLength == 37
\* token count of the truncation marker
TruncationMarkerTokens == 8
\* token count of the "\n" that join() puts between two lines
NewlineTokens == 1
\* token count of the "\n\n" put between two chunk summaries
SeparatorTokens == 1

Min(a, b) == IF a < b THEN a ELSE b

maxChunkTokens == Min(2000, maxContextForMessages - systemOverheadTokens)

(***************************************************************************)
(* Text.                                                                   *)
(***************************************************************************)
Atom(k, id, len, tok) == [k |-> k, id |-> id, len |-> len, tok |-> tok]

EmptyString == << >>

\* the JavaScript value undefined (not a string)
Undefined == << Atom("undefined-value", 0, 0, 0) >>

\* the string "undefined", which is what undefined becomes inside a string
UndefinedText == << Atom("text-undefined", 0, 9, 1) >>

\* string conversion of a value in a template literal or a concatenation
Str(x) == IF x = Undefined THEN UndefinedText ELSE x

NewlineAtom == Atom("newline", 0, 1, NewlineTokens)

SeparatorAtom == Atom("blank-line", 0, 2, SeparatorTokens)

FallbackString == << Atom("fallback", 0, 136, 30) >>

RECURSIVE SumTokens(_)
SumTokens(s) == IF s = << >> THEN 0 ELSE Head(s).tok + SumTokens(Tail(s))

\* tokenizer.js countTokens: 0 for a falsy argument, else the encoded length
countTokens(text) ==
    IF text = Undefined \/ text = EmptyString THEN 0 ELSE SumTokens(text)

\* Array.prototype.join("\n") over a chunk (a sequence of lines)
RECURSIVE join(_)
join(chunk) ==
    IF chunk = << >> THEN EmptyString
    ELSE IF Len(chunk) = 1 THEN << chunk[1] >>
    ELSE << chunk[1], NewlineAtom >> \o join(Tail(chunk))

(***************************************************************************)
(* Messages and the compact formatter.                                     *)
(* A message record holds what the formatter looks at:                     *)
(*   body: "missing" | "empty" | "blank" | "text"; bodyLen its length;     *)
(*   hasMedia; timeLen: length of H:MM or HH:MM; authorLen: length of the  *)
(*   author (the part before an '@'); quoted: "none" | "ok" | "nobody"     *)
(*   (a quotedMsg object without body); quotedLen, quotedAuthorLen;        *)
(*   tpc: tokens per character of its text under the tokenizer.            *)
(***************************************************************************)
NullLine == Atom("null", 0, 0, 0)

FormatThrows(msg) ==
    /\ ~(msg.body \in {"missing", "empty", "blank"} \/ msg.hasMedia)
    /\ msg.quoted = "nobody"

\* variant: msg.hasMedia is not looked at
formatMessageCompact_IgnoresMedia(msg) ==
    IF msg.body \in {"missing", "empty", "blank"}
    THEN NullLine
    ELSE LET bodyLen == IF msg.bodyLen > maxMsgLength
                        THEN maxMsgLength + 3 ELSE msg.bodyLen
             previewLen == IF msg.quotedLen > maxQuotedLength
                           THEN maxQuotedLength + 3 ELSE msg.quotedLen
             replyLen == IF msg.quoted = "none" THEN 0
                         ELSE 14 + msg.quotedAuthorLen + 3 + previewLen + 2
             len == 1 + msg.timeLen + 2 + msg.authorLen + 2 + bodyLen + replyLen
         IN  Atom("line", msg.id, len, len * msg.tpc)

formatMessageCompact(msg) ==
    IF msg.body \in {"missing", "empty", "blank"} \/ msg.hasMedia
    THEN NullLine
    ELSE LET bodyLen == IF msg.bodyLen > maxMsgLength
                        THEN maxMsgLength + 3 ELSE msg.bodyLen
             previewLen == IF msg.quotedLen > maxQuotedLength
                           THEN maxQuotedLength + 3 ELSE msg.quotedLen
             replyLen == IF msg.quoted = "none" THEN 0
                         ELSE 14 + msg.quotedAuthorLen + 3 + previewLen + 2
             len == 1 + msg.timeLen + 2 + msg.authorLen + 2 + bodyLen + replyLen
         IN  Atom("line", msg.id, len, len * msg.tpc)

(***************************************************************************)
(* The chunker, tokenizer.js createTokenBasedChunks.                       *)
(***************************************************************************)
RECURSIVE SelectSeqNonNull(_)
SelectSeqNonNull(s) ==
    IF s = << >> THEN << >>
    ELSE IF Head(s) = NullLine THEN SelectSeqNonNull(Tail(s))
    ELSE << Head(s) >> \o SelectSeqNonNull(Tail(s))

\* variant: the null lines are kept
formattedMessages_Unfiltered(msgs) ==
    [j \in 1..Len(msgs) |-> formatMessageCompact(msgs[j])]

\* messages.map(formatter).filter(msg => msg !== null)
formattedMessages(msgs) ==
    SelectSeqNonNull([j \in 1..Len(msgs) |-> formatMessageCompact(msgs[j])])

\* formattedMsg.substring(0, floor(maxChunkTokens * 0.5)) + marker
TruncateLine(line) ==
    LET keep == Min(line.len, maxChunkTokens \div 2)
    IN  Atom("truncated", line.id, keep + TruncationMarkerLength,
             keep * (line.tok \div line.len) + TruncationMarkerTokens)

\* (currentTokenCount + msgTokens > maxChunkTokens) && currentChunk.length > 0
ClosesChunk(currentTokenCount, msgTokens, currentChunk) ==
    (currentTokenCount + msgTokens > maxChunkTokens) /\ Len(currentChunk) > 0

\* variant: the last chunk is pushed even when it has no line
EmitLast_Always(chunks, currentChunk) == Append(chunks, currentChunk)

\* if (currentChunk.length > 0) chunks.push(currentChunk)
EmitLast(chunks, currentChunk) ==
    IF Len(currentChunk) > 0 THEN Append(chunks, currentChunk) ELSE chunks

\* variant: a line is truncated when it is above half of the budget
IsVeryLarge_Half(msgTokens) == 2 * msgTokens > maxChunkTokens

\* msgTokens > maxChunkTokens * 0.75
IsVeryLarge(msgTokens) == 4 * msgTokens > 3 * maxChunkTokens

\* one iteration of the loop over the formatted lines; st holds chunks,
\* currentChunk and currentTokenCount
AddLine(st, formattedMsg) ==
    LET msgTokens == countTokens(<< formattedMsg >>)
        close == ClosesChunk(st.currentTokenCount, msgTokens, st.currentChunk)
        chunks1 == IF close THEN Append(st.chunks, st.currentChunk)
                   ELSE st.chunks
        cur1 == IF close THEN << >> ELSE st.currentChunk
        cnt1 == IF close THEN 0 ELSE st.currentTokenCount
        cur2 == Append(cur1, formattedMsg)
        cnt2 == cnt1 + msgTokens
        cur3 == IF IsVeryLarge(msgTokens)
                THEN [cur2 EXCEPT ![Len(cur2)] = TruncateLine(formattedMsg)]
                ELSE cur2
        cnt3 == IF IsVeryLarge(msgTokens) THEN SumTokens(cur3) ELSE cnt2
    IN  [st EXCEPT !.chunks = chunks1, !.currentChunk = cur3,
                   !.currentTokenCount = cnt3]

RECURSIVE ChunkLoop(_, _, _, _)
ChunkLoop(lines, chunks, currentChunk, currentTokenCount) ==
    IF lines = << >>
    THEN EmitLast(chunks, currentChunk)
    ELSE LET st == AddLine([chunks |-> chunks, currentChunk |-> currentChunk,
                            currentTokenCount |-> currentTokenCount],
                           Head(lines))
         IN  ChunkLoop(Tail(lines), st.chunks, st.currentChunk,
                       st.currentTokenCount)

createTokenBasedChunks(msgs) == ChunkLoop(formattedMessages(msgs), << >>, << >>, 0)

(***************************************************************************)
(* Prompt templates and system instructions.  The fixed text of a template *)
(* is one atom per stretch between two interpolated inputs.                *)
(***************************************************************************)
getInitialPrompt(chatText) ==
    << Atom("initial-head", 0, 1171, 240) >> \o Str(chatText)
        \o << Atom("initial-tail", 0, 10, 3) >>

getContinuationPrompt(summary, chatText) ==
    << Atom("continuation-head", 0, 65, 10) >> \o Str(summary)
        \o << Atom("continuation-middle", 0, 640, 120) >> \o Str(chatText)
        \o << Atom("continuation-tail", 0, 18, 4) >>

getConsolidationPrompt(full, batch) ==
    << Atom("consolidation-head", 0, 825, 165) >> \o Str(full)
        \o << Atom("consolidation-middle", 0, 18, 4) >> \o Str(batch)
        \o << Atom("consolidation-tail", 0, 19, 4) >>

getRefinementPrompt(full) ==
    << Atom("refinement-head", 0, 860, 180) >> \o Str(full)
        \o << Atom("refinement-tail", 0, 18, 4) >>

getSummarizationSystemPrompt == "summarization"

getConsolidationSystemPrompt == "consolidation"

getRefinementSystemPrompt == "refinement"

(***************************************************************************)
(* The message lists the pipeline is run on.                               *)
(***************************************************************************)
Msg(body, bodyLen, hasMedia, authorLen, quoted, tpc) ==
    [id |-> 0, body |-> body, bodyLen |-> bodyLen, hasMedia |-> hasMedia,
     timeLen |-> 4, authorLen |-> authorLen, quoted |-> quoted,
     quotedLen |-> IF quoted = "ok" THEN 20 ELSE 0,
     quotedAuthorLen |-> IF quoted = "none" THEN 0 ELSE 5, tpc |-> tpc]

\* no body: filtered out by the formatter
MsgEmpty == Msg("empty", 0, FALSE, 5, "none", 1)

\* a line of 700 characters and 700 tokens
MsgSmall == Msg("text", 150, FALSE, 541, "none", 1)

\* a line of 1300 characters and 1300 tokens
MsgBig == Msg("text", 250, FALSE, 1088, "none", 1)

\* a line of 1600 characters and 1600 tokens: truncated by the chunker
MsgLong == Msg("text", 250, FALSE, 1388, "none", 1)

\* a line of 800 characters and 2400 tokens: over 2000 tokens when truncated
MsgDense == Msg("text", 250, FALSE, 588, "none", 3)

\* a reply whose quotedMsg object has no body
MsgBadQuote == Msg("text", 10, FALSE, 5, "nobody", 1)

MsgKinds == {MsgEmpty, MsgSmall, MsgBig, MsgLong, MsgDense, MsgBadQuote}

\* the lists of at most n messages of the given kinds; id is the position
ListsOf(kinds, n) ==
    UNION { { [j \in 1..m |-> [f[j] EXCEPT !.id = j]] : f \in [1..m -> kinds] }
            : m \in 0..n }

MessageLists ==
    ListsOf(MsgKinds, MaxMixedMsgs) \cup ListsOf({MsgSmall, MsgBig}, MaxMsgs)

\* what the completion service can answer to a request
ResponseTokens == {0, LargeResponseTokens}

\* the ways a completion call throws
ThrowKinds == {"transport", "status", "nochoices"}

(***************************************************************************)
(* State of one invocation of summarizeWithLLM.                            *)
(***************************************************************************)
VARIABLES
    messages,       \* the argument
    pc,             \* position in the function
    messageChunks,  \* the chunk list
    i,              \* loop index of the split pass, then of the chunk loop
    batchIndex,
    batchSummary,
    fullSummary,
    inflight,       \* the completion requests sent and not yet answered
    result,         \* the returned value, or NotReturned
    \* history
    lastRequest,    \* the latest completion request sent, or NoRequest
    requestLog,     \* kind, batch and chunk of each request sent, in order
    requestCount,   \* completion requests sent so far
    chunkCalls,     \* chunk-step requests sent so far
    consolidations, \* consolidation requests sent so far
    refinements,    \* refinement requests sent so far
    batches,        \* batches started so far
    sentChunks,     \* indices (0-based) of the chunks sent as chatText, in order
    skippedChunks,  \* indices of the chunks left out by a prompt-size abort
    failure,        \* "none", or the kind of the first failed completion call
    sentAfterFailure, \* a request was sent after a failed completion call
    lastResponse,   \* content of the latest answered request
    \* one call of the formatter and of the chunker
    fmsg,           \* the message record given to them
    fline,          \* what formatMessageCompact(fmsg) gave
    fchunks,        \* what createTokenBasedChunks([neighbour, fmsg]) gave
    \* the message_create handlers
    messageCounters, \* chat id -> messages counted since the last trigger
    handlers,       \* the handler invocations that are suspended at an await
    received,       \* history: message_create events per chat
    triggered,      \* history: auto-summaries triggered per chat
    commands,       \* history: !summarize commands received
    \* two invocations of summarizeWithLLM
    inv,            \* invocation -> its local variables
    \* one call of createTokenBasedChunks, one loop iteration at a time
    chunker,        \* its argument, local variables and returned value
    \* one call of formatMessage
    raw,            \* the raw message given to it
    structured,     \* what it returned
    \* the command line
    cli,            \* the readline interface and the command under way
    \* one message_create handler of a message that carries a command
    command         \* its argument, its position and the counts it has used

pipelineVars ==
    << messages, pc, messageChunks, i, batchIndex, batchSummary,
       fullSummary, inflight, result, lastRequest, requestLog,
       requestCount, chunkCalls, consolidations, refinements, batches, sentChunks,
       skippedChunks, failure, sentAfterFailure, lastResponse >>

formatVars == << fmsg, fline, fchunks >>

eventVars == << messageCounters, handlers, received, triggered, commands >>

pairVars == << inv >>

chunkerVars == << chunker >>

structuredVars == << raw, structured >>

cliVars == << cli >>

commandVars == << command >>

\* the variables that one invocation of summarizeWithLLM leaves alone
otherVars ==
    << formatVars, eventVars, pairVars, chunkerVars, structuredVars, cliVars, commandVars >>

vars == << pipelineVars, formatVars, eventVars, pairVars, chunkerVars,
           structuredVars, cliVars, commandVars >>

NoRequest ==
    [kind |-> "none", template |-> "none", system |-> "none",
     prompt |-> << >>, tokens |-> 0, seq |-> 0,
     temperature |-> "none", max_tokens |-> 0]

NotReturned == << Atom("not-returned", 0, 0, 0) >>

\* the chats that messages come from
Chats == {"c1", "c2"}

NotCalledLine == Atom("not-called", 0, 0, 0)

NotCalledChunks == << << NotCalledLine >> >>

\* no formatter call under observation
FormatIdle ==
    /\ fmsg = MsgEmpty
    /\ fline = NotCalledLine
    /\ fchunks = NotCalledChunks

\* const messageCounters = {}; no handler running
EventsInit ==
    /\ messageCounters = << >>
    /\ handlers = {}
    /\ received = [c \in Chats |-> 0]
    /\ triggered = [c \in Chats |-> 0]
    /\ commands = 0

\* no pair of invocations under observation
PairIdle == inv = << >>

\* the local variables of createTokenBasedChunks(msgs, formatter) on entry
ChunkerCalled(msgs) ==
    [messages |-> msgs, stage |-> "called", formattedMessages |-> << >>,
     pos |-> 0, chunks |-> << >>, currentChunk |-> << >>,
     currentTokenCount |-> 0, returned |-> NotCalledChunks]

\* no call of the chunker under observation
ChunkerIdle == chunker = [ChunkerCalled(<< >>) EXCEPT !.stage = "idle"]

\* a raw message of the chat library, as far as formatMessage reads it:
\*   fromMe; data: "none" (no _data object), "plain" (_data without
\*   notifyName) or "named"; author: "absent" or "present"; quoted, the
\*   _data.quotedMsg: "none", "full", "anonymous" (no notifyName) or
\*   "nobody" (no body); body and hasMedia are copied
RawMessage(fromMe, data, author, quoted, body, hasMedia) ==
    [fromMe |-> fromMe, data |-> data, author |-> author, quoted |-> quoted,
     body |-> body, hasMedia |-> hasMedia]

\* what formatMessage gave: outcome "not-called", "returned" or "TypeError"
Structured(outcome, author, quotedAuthor, quotedBody, body, hasMedia, fromMe) ==
    [outcome |-> outcome, author |-> author, quotedAuthor |-> quotedAuthor,
     quotedBody |-> quotedBody, body |-> body, hasMedia |-> hasMedia,
     fromMe |-> fromMe]

NotStructured == Structured("not-called", "none", "null", "null", "none",
                            FALSE, FALSE)

\* no call of formatMessage under observation
StructuredIdle ==
    /\ raw = RawMessage(TRUE, "none", "absent", "none", "text", FALSE)
    /\ structured = NotStructured

\* the readline interface: the question that waits for a line ("prompt" for
\* '> ', "confirm" for the y/n question, "none"), the await processCommand
\* is suspended at ("idle" when no command is under way), the number of
\* '> ' prompts issued and the inputs handled so far
Cli(question, stage, prompts, history) ==
    [question |-> question, stage |-> stage, prompts |-> prompts,
     history |-> history]

\* the command line is not started
CliIdle == cli = Cli("none", "off", 0, << >>)

\* a JavaScript number: an integer, NaN or Infinity
Num(kind, val) == [kind |-> kind, val |-> val]

Integer(n) == Num("int", n)

NaN == Num("nan", 0)

PlusInfinity == Num("inf", 0)

\* a local variable that has not been given a value yet
NotYet == Num("none", 0)

\* the handler of a message whose body is '!summarize' followed by arg:
\* where it is suspended, whether the message triggered the auto-summary,
\* the count it announced in the acknowledgement and the limit it fetched
\* with
CommandHandler(arg, auto, stage, announced, limit) ==
    [arg |-> arg, auto |-> auto, cmd |-> TRUE, pc |-> stage,
     announced |-> announced, limit |-> limit]

\* no such handler under observation
CommandIdle == command = CommandHandler("", FALSE, "none", NotYet, NotYet)

\* summarizeWithLLM has been called with a message list
PipelineInit(lists) ==
    /\ messages \in lists
    /\ pc = "start"
    /\ messageChunks = << >>
    /\ i = 0
    /\ batchIndex = 0
    /\ batchSummary = EmptyString
    /\ fullSummary = EmptyString
    /\ inflight = {}
    /\ result = NotReturned
    /\ lastRequest = NoRequest
    /\ requestLog = << >>
    /\ requestCount = 0
    /\ chunkCalls = 0
    /\ consolidations = 0
    /\ refinements = 0
    /\ batches = 0
    /\ sentChunks = << >>
    /\ skippedChunks = {}
    /\ failure = "none"
    /\ sentAfterFailure = FALSE
    /\ lastResponse = EmptyString

\* no invocation under observation
PipelineIdle == PipelineInit({<< >>})

Init ==
    /\ PipelineInit(MessageLists)
    /\ ChunkerIdle
    /\ StructuredIdle
    /\ CliIdle
    /\ CommandIdle
    /\ FormatIdle
    /\ EventsInit
    /\ PairIdle

(***************************************************************************)
(* Chunking and the split pass.                                            *)
(***************************************************************************)
\* the catch block: the fixed string is returned
Catch ==
    /\ result' = FallbackString
    /\ pc' = "done"
    /\ inflight' = {}

\* formatMessageCompact throws inside createTokenBasedChunks
FormatterThrows ==
    /\ UNCHANGED otherVars
    /\ pc = "start"
    /\ \E j \in 1..Len(messages) : FormatThrows(messages[j])
    /\ Catch
    /\ UNCHANGED << messages, messageChunks, i, batchIndex, batchSummary,
                    fullSummary, lastRequest, requestLog, requestCount, chunkCalls,
                    consolidations, refinements, batches, sentChunks,
                    skippedChunks, failure, sentAfterFailure, lastResponse >>

\* variant: long bodies are cut in the caller's message records
CreateChunks_TruncatesInput ==
    /\ UNCHANGED otherVars
    /\ pc = "start"
    /\ \A j \in 1..Len(messages) : ~FormatThrows(messages[j])
    /\ messageChunks' = createTokenBasedChunks(messages)
    /\ messages' = [j \in 1..Len(messages) |->
                       [messages[j] EXCEPT
                           !.bodyLen = Min(@, maxMsgLength)]]
    /\ i' = 0
    /\ pc' = "split"
    /\ UNCHANGED << batchIndex, batchSummary, fullSummary, inflight,
                    result, lastRequest, requestLog, requestCount, chunkCalls,
                    consolidations, refinements, batches, sentChunks,
                    skippedChunks, failure, sentAfterFailure, lastResponse >>

\* const messageChunks = createTokenBasedChunks(messages, formatMessageCompact)
CreateChunks ==
    /\ UNCHANGED otherVars
    /\ pc = "start"
    /\ \A j \in 1..Len(messages) : ~FormatThrows(messages[j])
    /\ messageChunks' = createTokenBasedChunks(messages)
    /\ i' = 0
    /\ pc' = "split"
    /\ UNCHANGED << messages, batchIndex, batchSummary, fullSummary, inflight,
                    result, lastRequest, requestLog, requestCount, chunkCalls,
                    consolidations, refinements, batches, sentChunks,
                    skippedChunks, failure, sentAfterFailure, lastResponse >>

\* variant: the split threshold is too high
NeedsSplit_Loose(totalTokens) == totalTokens > maxSplitTokens + 500

\* totalTokens > 2000
NeedsSplit(totalTokens) == totalTokens > maxSplitTokens

\* variant: the second half starts one line too late
SplitChunk_OffByOne(chunk) ==
    LET midpoint == Len(chunk) \div 2
    IN  << SubSeq(chunk, 1, midpoint), SubSeq(chunk, midpoint + 2, Len(chunk)) >>

\* chunk.slice(0, midpoint) and chunk.slice(midpoint)
SplitChunk(chunk) ==
    LET midpoint == Len(chunk) \div 2
    IN  << SubSeq(chunk, 1, midpoint), SubSeq(chunk, midpoint + 1, Len(chunk)) >>

\* messageChunks.splice(at, 1, firstHalf, secondHalf), at 0-based
Splice(chunks, at, halves) ==
    SubSeq(chunks, 1, at) \o halves \o SubSeq(chunks, at + 2, Len(chunks))

\* one iteration of the split pass that splits chunk i (i--, continue, i++)
SplitStep ==
    /\ UNCHANGED otherVars
    /\ pc = "split"
    /\ i < Len(messageChunks)
    /\ NeedsSplit(countTokens(join(messageChunks[i + 1])))
    /\ Len(messageChunks) < MaxMsgs + MaxExtraChunks
    /\ messageChunks' = Splice(messageChunks, i, SplitChunk(messageChunks[i + 1]))
    /\ UNCHANGED << messages, pc, i, batchIndex, batchSummary, fullSummary,
                    inflight, result, lastRequest, requestLog, requestCount, chunkCalls,
                    consolidations, refinements, batches, sentChunks,
                    skippedChunks, failure, sentAfterFailure, lastResponse >>

\* one iteration of the split pass that leaves chunk i as it is
SplitSkip ==
    /\ UNCHANGED otherVars
    /\ pc = "split"
    /\ i < Len(messageChunks)
    /\ ~NeedsSplit(countTokens(join(messageChunks[i + 1])))
    /\ i' = i + 1
    /\ UNCHANGED << messages, pc, messageChunks, batchIndex, batchSummary,
                    fullSummary, inflight, result, lastRequest, requestLog, requestCount,
                    chunkCalls, consolidations, refinements, batches,
                    sentChunks, skippedChunks, failure, sentAfterFailure,
                    lastResponse >>

\* the split pass is over; fullSummary = ''
SplitDone ==
    /\ UNCHANGED otherVars
    /\ pc = "split"
    /\ i >= Len(messageChunks)
    /\ pc' = "batch"
    /\ batchIndex' = 0
    /\ fullSummary' = EmptyString
    /\ UNCHANGED << messages, messageChunks, i, batchSummary, inflight, result,
                    lastRequest, requestLog, requestCount, chunkCalls, consolidations,
                    refinements, batches, sentChunks, skippedChunks, failure,
                    sentAfterFailure, lastResponse >>

(***************************************************************************)
(* The batch loop.                                                         *)
(***************************************************************************)
\* Math.ceil(messageChunks.length / BATCH_SIZE)
BatchCount(chunks) == (Len(chunks) + BATCH_SIZE - 1) \div BATCH_SIZE

\* variant: each batch starts one chunk after the previous one started
startIdx_Overlapping == batchIndex * (BATCH_SIZE - 1)

\* batchIndex * BATCH_SIZE
startIdx == batchIndex * BATCH_SIZE

\* variant: the batch ends one chunk after it starts
endIdx_OneChunk == Min(startIdx + BATCH_SIZE - 1, Len(messageChunks))

\* Math.min(startIdx + BATCH_SIZE, messageChunks.length)
endIdx == Min(startIdx + BATCH_SIZE, Len(messageChunks))

\* messageChunks.slice(startIdx, endIdx)
currentBatchChunks == SubSeq(messageChunks, startIdx + 1, endIdx)

\* variant: the index of the chunk in the batch is not looked at
UsesInitialPrompt_IgnoresIndex(idx, summary) == summary = EmptyString

\* i === 0 && batchSummary === ''
UsesInitialPrompt(idx, summary) == idx = 0 /\ summary = EmptyString

ChunkPrompt(idx, summary, chatText) ==
    IF UsesInitialPrompt(idx, summary)
    THEN getInitialPrompt(chatText)
    ELSE getContinuationPrompt(summary, chatText)

\* variant: the limit is compared with the wrong bound
PromptTooLarge_Loose(promptTokens) == promptTokens > maxPromptTokens + 1000

\* promptTokens > 3800
PromptTooLarge(promptTokens) == promptTokens > maxPromptTokens

\* variant: every batch is consolidated
IsFirstSummary_Never(summary) == FALSE

\* fullSummary === ''
IsFirstSummary(summary) == summary = EmptyString

\* variant: >= instead of >
NeedsRefinement_AtLeast(chunks) == Len(chunks) >= BATCH_SIZE

\* messageChunks.length > BATCH_SIZE
NeedsRefinement(chunks) == Len(chunks) > BATCH_SIZE

\* variant: every request carries the summarization system instruction
Request_OneSystem(kind, template, system, prompt) ==
    [kind |-> kind, template |-> template,
     system |-> getSummarizationSystemPrompt,
     prompt |-> prompt, tokens |-> countTokens(prompt),
     seq |-> requestCount + 1,
     temperature |-> "config.llm.temperature",
     max_tokens |-> maxCompletionTokens]

\* the body of the completion request
Request(kind, template, system, prompt) ==
    [kind |-> kind, template |-> template, system |-> system,
     prompt |-> prompt, tokens |-> countTokens(prompt),
     seq |-> requestCount + 1,
     temperature |-> "config.llm.temperature",
     max_tokens |-> maxCompletionTokens]

\* axios.post(...): the request leaves and the function is suspended
Post(req) ==
    /\ inflight' = inflight \cup {req}
    /\ lastRequest' = req
    /\ requestLog' = Append(requestLog,
                            [kind |-> req.kind, batch |-> batchIndex,
                             chunk |-> IF req.kind = "chunk"
                                       THEN startIdx + i ELSE 0])
    /\ requestCount' = requestCount + 1
    /\ sentAfterFailure' = (sentAfterFailure \/ failure # "none")

\* what response.data.choices[0].message.content can evaluate to for the
\* request in flight: a string, or undefined when the message has no content
Contents ==
    { IF t = 0 THEN EmptyString
      ELSE << Atom("response", requestCount, 4 * t, t) >> : t \in ResponseTokens }
    \cup {Undefined}

Answered(content) ==
    /\ lastResponse' = content
    /\ failure' = IF failure = "none" /\ content = Undefined
                  THEN "nocontent" ELSE failure

\* the batch loop goes on with the next batch
BatchStart ==
    /\ UNCHANGED otherVars
    /\ pc = "batch"
    /\ batchIndex < BatchCount(messageChunks)
    /\ batchSummary' = EmptyString
    /\ i' = 0
    /\ pc' = "chunk"
    /\ batches' = batches + 1
    /\ UNCHANGED << messages, messageChunks, batchIndex, fullSummary, inflight,
                    result, lastRequest, requestLog, requestCount, chunkCalls,
                    consolidations, refinements, sentChunks, skippedChunks,
                    failure, sentAfterFailure, lastResponse >>

\* the chunk loop sends the request of chunk i of the batch
SendChunk ==
    /\ UNCHANGED otherVars
    /\ pc = "chunk"
    /\ i < Len(currentBatchChunks)
    /\ LET chatText == join(currentBatchChunks[i + 1])
           prompt == ChunkPrompt(i, batchSummary, chatText)
       IN  /\ ~PromptTooLarge(countTokens(prompt))
           /\ Post(Request("chunk",
                           IF UsesInitialPrompt(i, batchSummary)
                           THEN "initial" ELSE "continuation",
                           getSummarizationSystemPrompt, prompt))
    /\ pc' = "await_chunk"
    /\ chunkCalls' = chunkCalls + 1
    /\ sentChunks' = Append(sentChunks, startIdx + i)
    /\ UNCHANGED << messages, messageChunks, i, batchIndex, batchSummary,
                    fullSummary, result, consolidations, refinements, batches,
                    skippedChunks, failure, lastResponse >>

\* variant: an oversized prompt raises an error instead of leaving the loop
AbortBatch_Throws ==
    /\ UNCHANGED otherVars
    /\ pc = "chunk"
    /\ i < Len(currentBatchChunks)
    /\ PromptTooLarge(countTokens(
           ChunkPrompt(i, batchSummary, join(currentBatchChunks[i + 1]))))
    /\ Catch
    /\ skippedChunks' = skippedChunks \cup ((startIdx + i)..(endIdx - 1))
    /\ UNCHANGED << messages, messageChunks, i, batchIndex, batchSummary,
                    fullSummary, lastRequest, requestLog, requestCount, chunkCalls,
                    consolidations, refinements, batches, sentChunks, failure,
                    sentAfterFailure, lastResponse >>

\* the prompt of chunk i is too large: break out of the chunk loop
AbortBatch ==
    /\ UNCHANGED otherVars
    /\ pc = "chunk"
    /\ i < Len(currentBatchChunks)
    /\ PromptTooLarge(countTokens(
           ChunkPrompt(i, batchSummary, join(currentBatchChunks[i + 1]))))
    /\ pc' = "combine"
    /\ skippedChunks' = skippedChunks \cup ((startIdx + i)..(endIdx - 1))
    /\ UNCHANGED << messages, messageChunks, i, batchIndex, batchSummary,
                    fullSummary, inflight, result, lastRequest, requestLog, requestCount,
                    chunkCalls, consolidations, refinements, batches,
                    sentChunks, failure, sentAfterFailure, lastResponse >>

\* the chunk loop has gone through the batch
ChunkLoopExit ==
    /\ UNCHANGED otherVars
    /\ pc = "chunk"
    /\ i >= Len(currentBatchChunks)
    /\ pc' = "combine"
    /\ UNCHANGED << messages, messageChunks, i, batchIndex, batchSummary,
                    fullSummary, inflight, result, lastRequest, requestLog, requestCount,
                    chunkCalls, consolidations, refinements, batches,
                    sentChunks, skippedChunks, failure, sentAfterFailure,
                    lastResponse >>

\* variant: the response is appended also for the first chunk
UpdateBatchSummary_AlwaysAppends(idx, summary, chunkSummary) ==
    Str(summary) \o << SeparatorAtom >> \o Str(chunkSummary)

\* i === 0 ? chunkSummary : batchSummary + "\n\n" + chunkSummary
UpdateBatchSummary(idx, summary, chunkSummary) ==
    IF idx = 0 THEN chunkSummary
    ELSE Str(summary) \o << SeparatorAtom >> \o Str(chunkSummary)

\* the chunk request is answered: update the batch summary
ChunkResponse ==
    /\ UNCHANGED otherVars
    /\ pc = "await_chunk"
    /\ \E chunkSummary \in Contents :
          /\ batchSummary' = UpdateBatchSummary(i, batchSummary, chunkSummary)
          /\ Answered(chunkSummary)
    /\ inflight' = inflight \ {lastRequest}
    /\ IF i < Len(currentBatchChunks) - 1
       THEN pc' = "chunk_delay" /\ i' = i
       ELSE pc' = "chunk" /\ i' = i + 1
    /\ UNCHANGED << messages, messageChunks, batchIndex, fullSummary, result,
                    lastRequest, requestLog, requestCount, chunkCalls, consolidations,
                    refinements, batches, sentChunks, skippedChunks,
                    sentAfterFailure >>

\* variant: the loop index is not advanced after the delay
ChunkDelay_NoAdvance ==
    /\ UNCHANGED otherVars
    /\ pc = "chunk_delay"
    /\ i' = i
    /\ pc' = "chunk"
    /\ UNCHANGED << messages, messageChunks, batchIndex, batchSummary,
                    fullSummary, inflight, result, lastRequest, requestLog,
                    requestCount, chunkCalls, consolidations, refinements,
                    batches, sentChunks, skippedChunks, failure,
                    sentAfterFailure, lastResponse >>

\* the 100 ms delay between two chunks of a batch has elapsed
ChunkDelay ==
    /\ UNCHANGED otherVars
    /\ pc = "chunk_delay"
    /\ i' = i + 1
    /\ pc' = "chunk"
    /\ UNCHANGED << messages, messageChunks, batchIndex, batchSummary,
                    fullSummary, inflight, result, lastRequest, requestLog, requestCount,
                    chunkCalls, consolidations, refinements, batches,
                    sentChunks, skippedChunks, failure, sentAfterFailure,
                    lastResponse >>

\* end of a batch iteration: delay before the next batch, or batchIndex++
AfterBatch ==
    IF batchIndex < BatchCount(messageChunks) - 1
    THEN pc' = "batch_delay" /\ batchIndex' = batchIndex
    ELSE pc' = "batch" /\ batchIndex' = batchIndex + 1

\* fullSummary is empty: it becomes the batch summary
KeepBatchSummary ==
    /\ UNCHANGED otherVars
    /\ pc = "combine"
    /\ IsFirstSummary(fullSummary)
    /\ fullSummary' = batchSummary
    /\ AfterBatch
    /\ UNCHANGED << messages, messageChunks, i, batchSummary, inflight, result,
                    lastRequest, requestLog, requestCount, chunkCalls, consolidations,
                    refinements, batches, sentChunks, skippedChunks, failure,
                    sentAfterFailure, lastResponse >>

\* variant: the consolidation request is posted without being awaited
SendConsolidation_NotAwaited ==
    /\ UNCHANGED otherVars
    /\ pc = "combine"
    /\ ~IsFirstSummary(fullSummary)
    /\ Post(Request("consolidation", "consolidation",
                    getConsolidationSystemPrompt,
                    getConsolidationPrompt(fullSummary, batchSummary)))
    /\ AfterBatch
    /\ consolidations' = consolidations + 1
    /\ UNCHANGED << messages, messageChunks, i, batchSummary, fullSummary,
                    result, chunkCalls, refinements, batches, sentChunks,
                    skippedChunks, failure, lastResponse >>

\* fullSummary is not empty: send the consolidation request
SendConsolidation ==
    /\ UNCHANGED otherVars
    /\ pc = "combine"
    /\ ~IsFirstSummary(fullSummary)
    /\ Post(Request("consolidation", "consolidation",
                    getConsolidationSystemPrompt,
                    getConsolidationPrompt(fullSummary, batchSummary)))
    /\ pc' = "await_consolidation"
    /\ consolidations' = consolidations + 1
    /\ UNCHANGED << messages, messageChunks, i, batchIndex, batchSummary,
                    fullSummary, result, chunkCalls, refinements, batches,
                    sentChunks, skippedChunks, failure, lastResponse >>

\* variant: the consolidation response is appended to the running summary
ConsolidationResponse_Appends ==
    /\ UNCHANGED otherVars
    /\ pc = "await_consolidation"
    /\ \E content \in Contents :
          /\ fullSummary' = Str(fullSummary) \o << SeparatorAtom >>
                                \o Str(content)
          /\ Answered(content)
    /\ inflight' = inflight \ {lastRequest}
    /\ AfterBatch
    /\ UNCHANGED << messages, messageChunks, i, batchSummary, result,
                    lastRequest, requestLog, requestCount, chunkCalls, consolidations,
                    refinements, batches, sentChunks, skippedChunks,
                    sentAfterFailure >>

\* the consolidation request is answered: fullSummary is replaced
ConsolidationResponse ==
    /\ UNCHANGED otherVars
    /\ pc = "await_consolidation"
    /\ \E content \in Contents :
          /\ fullSummary' = content
          /\ Answered(content)
    /\ inflight' = inflight \ {lastRequest}
    /\ AfterBatch
    /\ UNCHANGED << messages, messageChunks, i, batchSummary, result,
                    lastRequest, requestLog, requestCount, chunkCalls, consolidations,
                    refinements, batches, sentChunks, skippedChunks,
                    sentAfterFailure >>

\* the 150 ms delay between two batches has elapsed
BatchDelay ==
    /\ UNCHANGED otherVars
    /\ pc = "batch_delay"
    /\ batchIndex' = batchIndex + 1
    /\ pc' = "batch"
    /\ UNCHANGED << messages, messageChunks, i, batchSummary, fullSummary,
                    inflight, result, lastRequest, requestLog, requestCount, chunkCalls,
                    consolidations, refinements, batches, sentChunks,
                    skippedChunks, failure, sentAfterFailure, lastResponse >>

\* after the batch loop, more than BATCH_SIZE chunks: send the refinement
SendRefinement ==
    /\ UNCHANGED otherVars
    /\ pc = "batch"
    /\ batchIndex >= BatchCount(messageChunks)
    /\ NeedsRefinement(messageChunks)
    /\ Post(Request("refinement", "refinement", getRefinementSystemPrompt,
                    getRefinementPrompt(fullSummary)))
    /\ pc' = "await_refinement"
    /\ refinements' = refinements + 1
    /\ UNCHANGED << messages, messageChunks, i, batchIndex, batchSummary,
                    fullSummary, result, chunkCalls, consolidations, batches,
                    sentChunks, skippedChunks, failure, lastResponse >>

RefinementResponse ==
    /\ UNCHANGED otherVars
    /\ pc = "await_refinement"
    /\ \E content \in Contents :
          /\ fullSummary' = content
          /\ result' = content
          /\ Answered(content)
    /\ inflight' = inflight \ {lastRequest}
    /\ pc' = "done"
    /\ UNCHANGED << messages, messageChunks, i, batchIndex, batchSummary,
                    lastRequest, requestLog, requestCount, chunkCalls, consolidations,
                    refinements, batches, sentChunks, skippedChunks,
                    sentAfterFailure >>

\* after the batch loop, no refinement: return fullSummary
ReturnSummary ==
    /\ UNCHANGED otherVars
    /\ pc = "batch"
    /\ batchIndex >= BatchCount(messageChunks)
    /\ ~NeedsRefinement(messageChunks)
    /\ result' = fullSummary
    /\ pc' = "done"
    /\ UNCHANGED << messages, messageChunks, i, batchIndex, batchSummary,
                    fullSummary, inflight, lastRequest, requestLog, requestCount,
                    chunkCalls, consolidations, refinements, batches,
                    sentChunks, skippedChunks, failure, sentAfterFailure,
                    lastResponse >>

\* the completion call in flight throws (transport error, non-2xx status,
\* a response without choices): the catch block returns the fixed string
CompletionThrows ==
    /\ UNCHANGED otherVars
    /\ pc \in {"await_chunk", "await_consolidation", "await_refinement"}
    /\ \E kind \in ThrowKinds :
          failure' = IF failure = "none" THEN kind ELSE failure
    /\ Catch
    /\ UNCHANGED << messages, messageChunks, i, batchIndex, batchSummary,
                    fullSummary, lastRequest, requestLog, requestCount, chunkCalls,
                    consolidations, refinements, batches, sentChunks,
                    skippedChunks, sentAfterFailure, lastResponse >>

Next ==
    \/ FormatterThrows
    \/ CreateChunks
    \/ SplitStep
    \/ SplitSkip
    \/ SplitDone
    \/ BatchStart
    \/ SendChunk
    \/ AbortBatch
    \/ ChunkLoopExit
    \/ ChunkResponse
    \/ ChunkDelay
    \/ KeepBatchSummary
    \/ SendConsolidation
    \/ ConsolidationResponse
    \/ BatchDelay
    \/ SendRefinement
    \/ RefinementResponse
    \/ ReturnSummary
    \/ CompletionThrows

Spec == Init /\ [][Next]_vars

TypeOK ==
    /\ pc \in {"start", "split", "batch", "chunk", "await_chunk", "chunk_delay",
               "combine", "await_consolidation", "batch_delay",
               "await_refinement", "done"}
    /\ i \in Nat
    /\ batchIndex \in Nat

(***************************************************************************)
(* Properties.                                                             *)
(***************************************************************************)
\* the chunk list exists: createTokenBasedChunks has returned
Chunked == pc # "start" /\ \A j \in 1..Len(messages) : ~FormatThrows(messages[j])

\* the split pass has finished
SplitPassDone == Chunked /\ pc # "split"

RECURSIVE Concat(_)
Concat(chunks) ==
    IF chunks = << >> THEN << >> ELSE Head(chunks) \o Concat(Tail(chunks))

Range(s) == { s[k] : k \in 1..Len(s) }

\* C1: if any completion call fails (transport error, non-2xx status, or a
\* response lacking choices[0].message.content), no further completion call
\* is issued and summarizeWithLLM returns exactly the fixed fallback string.
C1_FailureReturnsFallback ==
    failure # "none" =>
        /\ ~sentAfterFailure
        /\ pc = "done" => result = FallbackString

\* C2: no chunk-step request is ever sent whose prompt has a token count
\* above 3800; the count is the count of the prompt that is sent.
C2_ChunkPromptWithinLimit ==
    \A r \in inflight \cup {lastRequest} :
        r.kind = "chunk" =>
            /\ SumTokens(r.prompt) <= maxPromptTokens
            /\ r.tokens = SumTokens(r.prompt)

\* a chunk-step request is in flight in a run in which an earlier chunk step
\* was not sent because its prompt was above the limit
C2_Witness ==
    /\ pc = "await_chunk"
    /\ lastRequest.kind = "chunk"
    /\ lastRequest.template = "continuation"
    /\ skippedChunks # {}

\* C3: every request sent to the completion service, consolidation and
\* refinement requests included, has a prompt of at most 3800 tokens.
C3_EveryPromptWithinLimit ==
    \A r \in inflight : SumTokens(r.prompt) <= maxPromptTokens

\* C4: when the split pass has finished, every chunk has a joined token
\* count of at most 2000, except a chunk of exactly one line whose own token
\* count exceeds 2000.
C4_ChunksWithinBound ==
    SplitPassDone =>
        \A k \in 1..Len(messageChunks) :
            \/ countTokens(join(messageChunks[k])) <= maxSplitTokens
            \/ /\ Len(messageChunks[k]) = 1
               /\ countTokens(<< messageChunks[k][1] >>) > maxSplitTokens

\* the split pass has finished after splitting at least one chunk
C4_Witness ==
    /\ pc = "batch"
    /\ Chunked
    /\ Len(messageChunks) > Len(createTokenBasedChunks(messages))
    /\ \E k \in 1..Len(messageChunks) : Len(messageChunks[k]) > 1

\* C5: the split pass terminates.  Its loop is deterministic and a chunk that
\* is not split is never looked at again, so it terminates exactly when every
\* split replaces the chunk by two chunks of strictly fewer lines; a split
\* that yields the same chunk again is repeated without end.
C5_SplitPassTerminates ==
    [][ (pc = "split" /\ messageChunks' # messageChunks) =>
            /\ Len(messageChunks'[i + 1]) < Len(messageChunks[i + 1])
            /\ Len(messageChunks'[i + 2]) < Len(messageChunks[i + 1]) ]_vars

StoredLine(line) ==
    IF IsVeryLarge(countTokens(<< line >>)) THEN TruncateLine(line) ELSE line

C7_RefinementGating ==
    failure = "none" =>
        /\ refinements \in {0, 1}
        /\ refinements = 1 => Len(messageChunks) > BATCH_SIZE
        /\ pc = "done" =>
              /\ refinements = 1 <=> Len(messageChunks) > BATCH_SIZE
              /\ refinements = 1 =>
                    /\ lastRequest.kind = "refinement"
                    /\ lastRequest.seq = requestCount
                    /\ result = lastResponse

\* a run without failure has returned the non-empty response of its
\* refinement request
C7_Witness ==
    /\ pc = "done"
    /\ failure = "none"
    /\ refinements = 1
    /\ result = << Atom("response", requestCount, 4 * LargeResponseTokens,
                        LargeResponseTokens) >>

\* C8: in a run in which no completion call fails and there is at least one
\* chunk, the number of batches processed is the chunk count divided by 2
\* rounded up, and the number of consolidation requests is batches - 1.
C8_ConsolidationCount ==
    (pc = "done" /\ failure = "none" /\ Len(messageChunks) >= 1) =>
        /\ batches = BatchCount(messageChunks)
        /\ consolidations = batches - 1

\* C9: with 1 or 2 chunks and no completion failure, no consolidation and no
\* refinement request is issued; with exactly one chunk the returned summary
\* is the response to that chunk's initial-prompt request.
C9_SingleBatch ==
    (SplitPassDone /\ failure = "none" /\ Len(messageChunks) \in {1, 2}) =>
        /\ consolidations = 0
        /\ refinements = 0
        /\ (pc = "done" /\ Len(messageChunks) = 1) =>
              /\ requestCount = 1
              /\ lastRequest.kind = "chunk"
              /\ lastRequest.template = "initial"
              /\ lastRequest.prompt = getInitialPrompt(join(messageChunks[1]))
              /\ result = lastResponse

\* a one-chunk run has returned the non-empty response of its only request
C9_Witness ==
    /\ pc = "done"
    /\ failure = "none"
    /\ Len(messageChunks) = 1
    /\ requestCount = 1
    /\ result = << Atom("response", 1, 4 * LargeResponseTokens,
                        LargeResponseTokens) >>

\* the prompt of the chunk step about to be taken exceeds the limit
OversizedChunkPrompt ==
    /\ pc = "chunk"
    /\ i < Len(currentBatchChunks)
    /\ countTokens(ChunkPrompt(i, batchSummary, join(currentBatchChunks[i + 1])))
           > maxPromptTokens

\* C10: when a chunk-step prompt exceeds 3800 tokens the run does not fail:
\* the step returns nothing and keeps the batch summary, that chunk and the
\* later chunks of the batch are never submitted, the batch summary as it
\* stands is what is combined with the running summary, and a run without a
\* failing completion call goes through every batch and the refinement and
\* returns a summary, not the fallback string.
C10_AbortDoesNotFail ==
    [][ /\ OversizedChunkPrompt =>
              /\ pc' = "combine"
              /\ result' = NotReturned
              /\ batchSummary' = batchSummary
              /\ fullSummary' = fullSummary
              /\ requestCount' = requestCount
        /\ skippedChunks' \cap Range(sentChunks') = {}
        /\ (pc = "combine" /\ (startIdx + i) \in skippedChunks) =>
              /\ batchSummary' = batchSummary
              /\ \/ fullSummary' = batchSummary
                 \/ /\ lastRequest'.kind = "consolidation"
                    /\ lastRequest'.prompt =
                           getConsolidationPrompt(fullSummary, batchSummary)
        /\ (pc' = "done" /\ skippedChunks' # {} /\ failure' = "none") =>
              /\ result' \notin {FallbackString, NotReturned}
              /\ result' = fullSummary'
              /\ batches' = BatchCount(messageChunks')
              /\ refinements' = IF Len(messageChunks') > BATCH_SIZE THEN 1 ELSE 0
      ]_vars

\* a run in which a chunk step was left out for its size has gone on to the
\* later batches and the refinement, and has returned
C10_Witness ==
    /\ pc = "done"
    /\ failure = "none"
    /\ skippedChunks # {}
    /\ batches = 3
    /\ consolidations >= 1
    /\ refinements = 1
    /\ result # FallbackString

\* C11: within one invocation at most one completion request is in flight,
\* and a request is issued only when the previous one has been answered and
\* the delay that follows it has elapsed.
C11_OneRequestInFlight ==
    [][ /\ Cardinality(inflight') <= 1
        /\ requestCount' # requestCount =>
              /\ inflight = {}
              /\ pc \in {"chunk", "combine", "batch"}
              /\ inflight' = {lastRequest'}
      ]_vars

\* the second chunk request of a later batch is in flight, alone
C11_Witness ==
    /\ pc = "await_chunk"
    /\ batchIndex >= 1
    /\ i = 1
    /\ requestCount >= 3
    /\ inflight = {lastRequest}

\* C14: a malformed message record (a non-empty body and a quotedMsg object
\* without body) never raises: a run in which no completion call failed does
\* not end with the fallback string.
C14_MalformedRecordFiltered ==
    (pc = "done" /\ failure = "none") => result # FallbackString

\* C15: no zero-length chunk ever exists in the chunk list.
C15_NoEmptyChunk ==
    \A k \in 1..Len(messageChunks) : Len(messageChunks[k]) >= 1

\* the message list has no message to summarize
AllFiltered(msgs) ==
    \A j \in 1..Len(msgs) : formatMessageCompact(msgs[j]) = NullLine

\* C17: createTokenBasedChunks returns the empty chunk sequence when the
\* message list is empty and when every message is filtered out.
C17_EmptyChunkSequence ==
    (pc # "start" /\ AllFiltered(messages)) => messageChunks = << >>

\* the chunker has run on a list of two or more messages, all filtered out
C17_Witness ==
    /\ pc = "split"
    /\ Len(messages) >= 2
    /\ AllFiltered(messages)
    /\ messageChunks = << >>

\* the response atoms of a text
Responses(text) == { a \in Range(text) : a.k = "response" }

\* C19: the first chunk of every batch is sent with the initial template over
\* its chatText alone, every later chunk with the continuation template over
\* the current batch summary and its chatText; the batch summary is empty
\* when a batch starts; no chunk-step prompt holds a completion that is not
\* part of the current batch summary, so none holds the running summary.
C19_ChunkPromptChoice ==
    [][ /\ chunkCalls' # chunkCalls =>
              LET chatText == join(messageChunks[startIdx + i + 1])
                  r == lastRequest'
              IN  /\ r.kind = "chunk"
                  /\ r.system = getSummarizationSystemPrompt
                  /\ i = 0 => /\ batchSummary = EmptyString
                              /\ r.template = "initial"
                              /\ r.prompt = getInitialPrompt(chatText)
                  /\ i > 0 => /\ r.template = "continuation"
                              /\ r.prompt =
                                     getContinuationPrompt(batchSummary, chatText)
                  /\ Responses(r.prompt) \subseteq Responses(batchSummary)
                  /\ Responses(r.prompt) \cap Responses(fullSummary) = {}
        /\ batches' # batches => batchSummary' = EmptyString
      ]_vars

\* in a later batch, with a running summary, a second chunk is in flight with
\* a continuation prompt over an empty batch summary
C19_Witness ==
    /\ pc = "await_chunk"
    /\ batchIndex >= 1
    /\ i = 1
    /\ batchSummary = EmptyString
    /\ Responses(fullSummary) # {}
    /\ lastRequest.template = "continuation"

\* C20: after a chunk-step response the batch summary is the response if the
\* chunk is the first of its batch, and otherwise the previous batch summary,
\* a blank line and the response; nothing else changes a batch summary (a new
\* batch starts with a new, empty one).
C20_BatchSummaryUpdate ==
    [][ /\ (pc = "await_chunk" /\ pc' # "done") =>
              /\ i = 0 => batchSummary' = lastResponse'
              /\ i > 0 => batchSummary' =
                              Str(batchSummary) \o << SeparatorAtom >>
                                  \o Str(lastResponse')
        /\ (batchSummary' # batchSummary /\ pc # "await_chunk") =>
              (batches' # batches /\ batchSummary' = EmptyString)
      ]_vars

\* the batch summary holds the responses of both chunks of a batch
C20_Witness ==
    /\ pc = "chunk"
    /\ i = 2
    /\ Len(batchSummary) = 3
    /\ batchSummary[2] = SeparatorAtom
    /\ batchSummary[1].k = "response"
    /\ batchSummary[3] = lastResponse[1]

(***************************************************************************)
(* One call of formatMessageCompact and one of createTokenBasedChunks, on  *)
(* a message record whose fields are drawn independently.                  *)
(***************************************************************************)
BodyKinds == {"missing", "empty", "blank", "text"}

QuotedKinds == {"none", "ok", "nobody"}

\* the message records the formatter is called with
FormatRecords ==
    { r \in [id : {2}, body : BodyKinds, bodyLen : {0, 3, 200, 201},
             hasMedia : BOOLEAN, timeLen : {4, 5}, authorLen : {0, 5},
             quoted : QuotedKinds, quotedLen : {0, 60, 61},
             quotedAuthorLen : {0, 5}, tpc : {1}] :
        /\ r.body \in {"missing", "empty"} => r.bodyLen = 0
        /\ r.body = "blank" => r.bodyLen = 3
        /\ r.body = "text" => r.bodyLen > 0
        /\ r.quoted = "none" => r.quotedLen = 0 /\ r.quotedAuthorLen = 0
        /\ r.quoted = "nobody" => r.quotedLen = 0 }

ThrownLine == Atom("thrown", 0, 0, 0)

ThrownChunks == << << ThrownLine >> >>

\* the message that precedes fmsg in the list given to the chunker
Neighbour == [MsgSmall EXCEPT !.id = 1]

FormatInit ==
    /\ ChunkerIdle
    /\ StructuredIdle
    /\ CliIdle
    /\ CommandIdle
    /\ PipelineIdle
    /\ EventsInit
    /\ PairIdle
    /\ fmsg \in FormatRecords
    /\ fline = NotCalledLine
    /\ fchunks = NotCalledChunks

\* formatMessageCompact(fmsg)
CallFormatter ==
    /\ fline = NotCalledLine
    /\ fline' = IF FormatThrows(fmsg) THEN ThrownLine
                ELSE formatMessageCompact(fmsg)
    /\ UNCHANGED << fmsg, fchunks, pipelineVars, eventVars, pairVars,
                    chunkerVars, structuredVars, cliVars, commandVars >>

\* createTokenBasedChunks([neighbour, fmsg], formatMessageCompact)
CallChunker ==
    /\ fchunks = NotCalledChunks
    /\ fchunks' = IF FormatThrows(fmsg) THEN ThrownChunks
                  ELSE createTokenBasedChunks(<< Neighbour, fmsg >>)
    /\ UNCHANGED << fmsg, fline, pipelineVars, eventVars, pairVars,
                    chunkerVars, structuredVars, cliVars, commandVars >>

FormatNext ==
    \/ CallFormatter
    \/ CallChunker

SpecFormat == FormatInit /\ [][FormatNext]_vars

\* the body is missing, empty or whitespace-only, or the message has media
HasNoText(msg) ==
    msg.body \in {"missing", "empty", "blank"} \/ msg.hasMedia

\* C13: formatMessageCompact returns null for a message whose body is
\* missing, empty or whitespace-only, or whose hasMedia is true, whatever its
\* other fields are, and such a message contributes no line to any chunk.
C13_NoTextGivesNull ==
    HasNoText(fmsg) =>
        /\ fline \in {NotCalledLine, NullLine}
        /\ fchunks \in {NotCalledChunks,
                        createTokenBasedChunks(<< Neighbour >>)}
        /\ \A k \in 1..Len(fchunks) : \A j \in 1..Len(fchunks[k]) :
               fchunks[k][j].id # fmsg.id

\* a media message with a text body and a quotedMsg without body has been
\* formatted and chunked
C13_Witness ==
    /\ fmsg.hasMedia
    /\ fmsg.body = "text"
    /\ fmsg.quoted = "nobody"
    /\ fline = NullLine
    /\ Len(fchunks) = 1
    /\ Len(fchunks[1]) = 1
    /\ fchunks[1][1].id = Neighbour.id

(***************************************************************************)
(* The message_create handler, events.js: each event runs the handler up   *)
(* to its first await; a suspended handler goes on when its await settles. *)
(***************************************************************************)
\* messageCounters[chatId] || 0
CounterOf(chat) ==
    IF chat \in DOMAIN messageCounters THEN messageCounters[chat] ELSE 0

\* variant: > instead of >=
Triggers_Above(counter) == counter > autoSummaryThreshold

\* messageCounters[chatId] >= config.whatsapp.autoSummaryThreshold
Triggers(counter) == counter >= autoSummaryThreshold

\* variant: the counter is not reset at the trigger
CounterAfterTrigger_NotReset(counter) == counter

\* messageCounters[chatId] = 0; // Reset counter
CounterAfterTrigger(counter) == 0

\* the awaits of the handler, in order
AutoStages == << "auto_getChat", "auto_fetch", "auto_summarize", "auto_send" >>

CmdStages ==
    << "cmd_getChat", "cmd_ack", "cmd_fetch", "cmd_summarize", "cmd_reply" >>

Finished == "finished"

\* message.body.toLowerCase().startsWith('!summarize')
AfterAuto(h) == IF h.cmd THEN CmdStages[1] ELSE Finished

IndexOf(stages, stage) == CHOOSE k \in 1..Len(stages) : stages[k] = stage

\* where the handler is suspended next when its await resolves
NextStage(h) ==
    IF h.pc = "cmd_apology" THEN Finished
    ELSE IF h.pc \in Range(AutoStages)
    THEN IF h.pc = AutoStages[Len(AutoStages)] THEN AfterAuto(h)
         ELSE AutoStages[IndexOf(AutoStages, h.pc) + 1]
    ELSE IF h.pc = CmdStages[Len(CmdStages)] THEN Finished
         ELSE CmdStages[IndexOf(CmdStages, h.pc) + 1]

\* variant: one try block around the whole handler
CatchStage_EndsHandler(h) ==
    IF h.pc \in Range(AutoStages) THEN Finished
    ELSE IF h.pc = "cmd_apology" THEN Finished
    ELSE "cmd_apology"

\* where it is suspended next when its await rejects: the catch of the
\* auto-summary logs, the catch of the command replies with an apology, and
\* a rejected apology ends the handler
CatchStage(h) ==
    IF h.pc \in Range(AutoStages) THEN AfterAuto(h)
    ELSE IF h.pc = "cmd_apology" THEN Finished
    ELSE "cmd_apology"

\* logger.error('Error during auto-summarization:', error) has been called
AutoCatch(h) == h.autoError \/ h.pc \in Range(AutoStages)

\* summarizeWithLLM catches everything and resolves
CanReject(h) == h.pc \notin {"auto_summarize", "cmd_summarize"}

Suspend(h) ==
    IF h.pc = Finished THEN handlers ELSE handlers \cup {h}

TotalReceived == received["c1"] + received["c2"]

\* client.on('message_create', ...) up to the first await
MessageCreate ==
    /\ TotalReceived < MaxEvents
    /\ \E chat \in Chats, isCommand \in BOOLEAN :
          LET counter == CounterOf(chat) + 1
              id == TotalReceived + 1
              others == [c \in DOMAIN messageCounters \ {chat}
                             |-> messageCounters[c]]
          IN  /\ isCommand => commands < MaxCommands
              /\ commands' = IF isCommand THEN commands + 1 ELSE commands
              /\ received' = [received EXCEPT ![chat] = @ + 1]
              /\ IF Triggers(counter)
                 THEN /\ messageCounters' =
                            others @@ (chat :> CounterAfterTrigger(counter))
                      /\ triggered' = [triggered EXCEPT ![chat] = @ + 1]
                      /\ handlers' = Suspend([id |-> id, chat |-> chat,
                                              cmd |-> isCommand,
                                              autoError |-> FALSE,
                                              pc |-> AutoStages[1]])
                 ELSE /\ messageCounters' = others @@ (chat :> counter)
                      /\ triggered' = triggered
                      /\ handlers' = Suspend([id |-> id, chat |-> chat,
                                              cmd |-> isCommand,
                                              autoError |-> FALSE,
                                              pc |-> AfterAuto([cmd |-> isCommand])])
    /\ UNCHANGED << pipelineVars, formatVars, pairVars,
                    chunkerVars, structuredVars, cliVars, commandVars >>

\* the await a handler is suspended at resolves
AwaitResolves ==
    /\ \E h \in handlers :
          handlers' = (handlers \ {h}) \cup
                          (IF NextStage(h) = Finished THEN {}
                           ELSE {[h EXCEPT !.pc = NextStage(h)]})
    /\ UNCHANGED << messageCounters, received, triggered, commands,
                    pipelineVars, formatVars, pairVars,
                    chunkerVars, structuredVars, cliVars, commandVars >>

\* the await a handler is suspended at rejects
AwaitRejects ==
    /\ \E h \in handlers :
          /\ CanReject(h)
          /\ handlers' = (handlers \ {h}) \cup
                             (IF CatchStage(h) = Finished THEN {}
                              ELSE {[h EXCEPT !.pc = CatchStage(h),
                                              !.autoError = AutoCatch(h)]})
    /\ UNCHANGED << messageCounters, received, triggered, commands,
                    pipelineVars, formatVars, pairVars,
                    chunkerVars, structuredVars, cliVars, commandVars >>

EventsNext ==
    \/ MessageCreate
    \/ AwaitResolves
    \/ AwaitRejects

\* the client is set up and no message has come yet
EventsStart ==
    /\ ChunkerIdle
    /\ StructuredIdle
    /\ CliIdle
    /\ CommandIdle
    /\ PipelineIdle
    /\ FormatIdle
    /\ PairIdle
    /\ EventsInit

SpecEvents == EventsStart /\ [][EventsNext]_vars

Invocations == {1, 2}

PairLists == ListsOf({MsgSmall, MsgBig}, MaxPairMsgs)

\* the local variables when summarizeWithLLM(msgs) is entered
Called(msgs) ==
    [messages |-> msgs, pc |-> "called", messageChunks |-> << >>, i |-> 0,
     batchIndex |-> 0, batchSummary |-> EmptyString,
     fullSummary |-> EmptyString, requests |-> << >>, result |-> NotReturned]

\* the content a deterministic completion service returns for a request:
\* nothing, a short text or a long one, depending on the prompt
Complete(req) ==
    LET t == countTokens(req.prompt)
        size == IF t % 5 = 0 THEN 0
                ELSE IF t % 5 = 4 THEN LargeResponseTokens
                ELSE 100 + (t % 97)
    IN  IF size = 0 THEN EmptyString
        ELSE << Atom("response", t, 4 * size, size) >>

\* the chunks of the current batch of an invocation
BatchChunksOf(L) ==
    SubSeq(L.messageChunks, L.batchIndex * BATCH_SIZE + 1,
           Min(L.batchIndex * BATCH_SIZE + BATCH_SIZE, Len(L.messageChunks)))

\* await axios.post(...) with the prompt
Awaiting(L, template, system, prompt, at) ==
    [L EXCEPT !.requests = Append(@, [template |-> template,
                                      system |-> system, prompt |-> prompt]),
              !.pc = at]

\* the end of a batch: the delay before the next batch, or the loop test
BatchEnd(L) ==
    IF L.batchIndex < BatchCount(L.messageChunks) - 1
    THEN [L EXCEPT !.pc = "batch_delay"]
    ELSE [L EXCEPT !.batchIndex = @ + 1, !.pc = "batch"]

Suspended(L) ==
    L.pc \in {"await_chunk", "chunk_delay", "await_consolidation",
              "batch_delay", "await_refinement", "done"}

\* one step of the function between two awaits
Advance(L) ==
    CASE L.pc = "called" ->
           [L EXCEPT !.messageChunks = createTokenBasedChunks(L.messages),
                     !.i = 0, !.pc = "split"]
      [] L.pc = "split" ->
           IF L.i >= Len(L.messageChunks)
           THEN [L EXCEPT !.pc = "batch", !.batchIndex = 0,
                          !.fullSummary = EmptyString]
           ELSE IF NeedsSplit(countTokens(join(L.messageChunks[L.i + 1])))
           THEN [L EXCEPT !.messageChunks =
                     Splice(@, L.i, SplitChunk(L.messageChunks[L.i + 1]))]
           ELSE [L EXCEPT !.i = @ + 1]
      [] L.pc = "batch" ->
           IF L.batchIndex < BatchCount(L.messageChunks)
           THEN [L EXCEPT !.batchSummary = EmptyString, !.i = 0, !.pc = "chunk"]
           ELSE [L EXCEPT !.pc = "refine"]
      [] L.pc = "chunk" ->
           IF L.i >= Len(BatchChunksOf(L))
           THEN [L EXCEPT !.pc = "combine"]
           ELSE LET chatText == join(BatchChunksOf(L)[L.i + 1])
                    prompt == ChunkPrompt(L.i, L.batchSummary, chatText)
                IN  IF PromptTooLarge(countTokens(prompt))
                    THEN [L EXCEPT !.pc = "combine"]
                    ELSE Awaiting(L, IF UsesInitialPrompt(L.i, L.batchSummary)
                                     THEN "initial" ELSE "continuation",
                                  getSummarizationSystemPrompt, prompt,
                                  "await_chunk")
      [] L.pc = "combine" ->
           IF IsFirstSummary(L.fullSummary)
           THEN BatchEnd([L EXCEPT !.fullSummary = L.batchSummary])
           ELSE Awaiting(L, "consolidation", getConsolidationSystemPrompt,
                         getConsolidationPrompt(L.fullSummary, L.batchSummary),
                         "await_consolidation")
      [] L.pc = "refine" ->
           IF NeedsRefinement(L.messageChunks)
           THEN Awaiting(L, "refinement", getRefinementSystemPrompt,
                         getRefinementPrompt(L.fullSummary), "await_refinement")
           ELSE [L EXCEPT !.pc = "return"]
      [] L.pc = "return" ->
           [L EXCEPT !.result = L.fullSummary, !.pc = "done"]

\* the function runs until its next await, or until it returns
RECURSIVE RunToAwait(_)
RunToAwait(L) == IF Suspended(L) THEN L ELSE RunToAwait(Advance(L))

\* the await an invocation is suspended at settles
Settle(L) ==
    LET content == Complete(L.requests[Len(L.requests)])
    IN  CASE L.pc = "called" -> L
          [] L.pc = "await_chunk" ->
               LET S == [L EXCEPT !.batchSummary =
                             UpdateBatchSummary(L.i, @, content)]
               IN  IF L.i < Len(BatchChunksOf(L)) - 1
                   THEN [S EXCEPT !.pc = "chunk_delay"]
                   ELSE [S EXCEPT !.i = @ + 1, !.pc = "chunk"]
          [] L.pc = "chunk_delay" -> [L EXCEPT !.i = @ + 1, !.pc = "chunk"]
          [] L.pc = "await_consolidation" ->
               BatchEnd([L EXCEPT !.fullSummary = content])
          [] L.pc = "batch_delay" ->
               [L EXCEPT !.batchIndex = @ + 1, !.pc = "batch"]
          [] L.pc = "await_refinement" ->
               [L EXCEPT !.fullSummary = content, !.pc = "return"]

\* the invocation goes on from its await to the next one
Resume(L) == RunToAwait(Settle(L))

\* variant: fullSummary is one variable of the module, seen by every invocation
Store_SharedSummary(all, k, L) ==
    [j \in DOMAIN all |->
        IF j = k THEN L ELSE [all[j] EXCEPT !.fullSummary = L.fullSummary]]

\* the variables of the function are local to each invocation
Store(all, k, L) == [all EXCEPT ![k] = L]

PairInit ==
    /\ ChunkerIdle
    /\ StructuredIdle
    /\ CliIdle
    /\ CommandIdle
    /\ PipelineIdle
    /\ FormatIdle
    /\ EventsInit
    /\ inv \in [Invocations -> { Called(l) : l \in PairLists }]

\* one of the invocations is resumed and runs to its next await
Resumes ==
    /\ \E k \in Invocations :
          /\ inv[k].pc # "done"
          /\ inv' = Store(inv, k, Resume(inv[k]))
    /\ UNCHANGED << pipelineVars, formatVars, eventVars,
                    chunkerVars, structuredVars, cliVars, commandVars >>

PairNext == Resumes

SpecPair == PairInit /\ [][PairNext]_vars

\* the invocation run with no other invocation beside it
RECURSIVE RunAlone(_)
RunAlone(L) == IF L.pc = "done" THEN L ELSE RunAlone(Resume(L))

IsPrefix(s, t) == Len(s) <= Len(t) /\ s = SubSeq(t, 1, Len(s))

C21_RunningSummaryFrame ==
    [][ /\ fullSummary' # fullSummary =>
              pc \in {"combine", "await_consolidation", "await_refinement"}
        /\ (pc = "combine" /\ batchIndex = 0) =>
              /\ fullSummary' = batchSummary
              /\ requestCount' = requestCount
        /\ (pc = "combine" /\ requestCount' = requestCount) =>
              fullSummary' = batchSummary
        /\ (pc = "combine" /\ requestCount' # requestCount) =>
              /\ fullSummary' = fullSummary
              /\ lastRequest'.template = "consolidation"
              /\ lastRequest'.prompt =
                     getConsolidationPrompt(fullSummary, batchSummary)
        /\ (pc = "await_consolidation" /\ pc' # "done") =>
              /\ lastRequest.prompt =
                     getConsolidationPrompt(fullSummary, batchSummary)
              /\ fullSummary' = lastResponse'
        /\ (pc = "await_refinement" /\ result' # FallbackString) =>
              /\ lastRequest.prompt = getRefinementPrompt(fullSummary)
              /\ fullSummary' = lastResponse'
      ]_vars

\* the second batch has been consolidated: the running summary is the
\* consolidation response, a text that holds one completion
C21_Witness ==
    /\ pc \in {"batch", "batch_delay"}
    /\ batches = 2
    /\ consolidations = 1
    /\ lastRequest.template = "consolidation"
    /\ fullSummary = lastResponse
    /\ Cardinality(Responses(fullSummary)) = 1
    /\ Responses(batchSummary) # {}

\* the batch loop is at work on batch batchIndex
InBatch ==
    pc \in {"chunk", "await_chunk", "chunk_delay", "combine",
            "await_consolidation", "batch_delay"}

\* the batch loop has gone through every batch
BatchLoopOver ==
    \/ pc = "batch" /\ batchIndex >= BatchCount(messageChunks)
    \/ pc = "await_refinement"

\* C22: the batches partition the chunk list in order: batch k holds chunks
\* 2k and 2k+1 (0-based) when both exist, every batch has 2 chunks except
\* possibly the last, which has 1, and every chunk is in exactly one batch.
C22_BatchesPartition ==
    /\ InBatch =>
          /\ batchIndex < BatchCount(messageChunks)
          /\ Len(currentBatchChunks) =
                 (IF 2 * batchIndex + 2 <= Len(messageChunks) THEN 2 ELSE 1)
          /\ \A j \in 1..Len(currentBatchChunks) :
                currentBatchChunks[j] = messageChunks[2 * batchIndex + j]
          /\ Len(currentBatchChunks) = 1 =>
                batchIndex = BatchCount(messageChunks) - 1
          /\ Range(sentChunks) \cup skippedChunks \subseteq 0..(endIdx - 1)
          /\ 0..(startIdx - 1) \subseteq Range(sentChunks) \cup skippedChunks
    /\ \A a, b \in 1..Len(sentChunks) : a < b => sentChunks[a] < sentChunks[b]
    /\ Range(sentChunks) \cap skippedChunks = {}
    /\ BatchLoopOver =>
          Range(sentChunks) \cup skippedChunks = 0..(Len(messageChunks) - 1)

\* the loop is over after three batches, the last of one chunk
C22_Witness ==
    /\ BatchLoopOver
    /\ Len(messageChunks) = 5
    /\ batches = 3
    /\ Range(sentChunks) \cup skippedChunks = 0..4

\* the first request comes before the second in the order of the state machine
ComesBefore(x, y) ==
    /\ x.kind # "refinement"
    /\ \/ y.kind = "refinement"
       \/ x.batch < y.batch
       \/ /\ x.batch = y.batch
          /\ x.kind = "chunk"
          /\ \/ y.kind = "consolidation"
             \/ y.kind = "chunk" /\ x.chunk < y.chunk

\* C23: the requests of a run follow the order of the state machine: the
\* chunk requests of batch k in chunk order, then the consolidation request
\* of batch k, then the requests of batch k+1; the refinement request, when
\* there is one, comes after every batch and is the last request.
C23_RequestOrder ==
    /\ \A a, b \in 1..Len(requestLog) :
          a < b => ComesBefore(requestLog[a], requestLog[b])
    /\ \A a \in 1..Len(requestLog) :
          /\ requestLog[a].kind = "chunk" =>
                requestLog[a].chunk \div BATCH_SIZE = requestLog[a].batch
          /\ requestLog[a].kind = "refinement" =>
                requestLog[a].batch = BatchCount(messageChunks)
    /\ Len(requestLog) = requestCount

\* a run of three batches has sent five chunk requests, two consolidation
\* requests and the refinement request
C23_Witness ==
    /\ Len(requestLog) = 8
    /\ requestLog[8].kind = "refinement"
    /\ requestLog[7].kind = "consolidation"
    /\ requestLog[7].batch = 2
    /\ requestLog[6].kind = "chunk"
    /\ requestLog[6].chunk = 4

\* the system instruction of each kind of request
SystemOf(kind) ==
    CASE kind = "chunk" -> getSummarizationSystemPrompt
      [] kind = "consolidation" -> getConsolidationSystemPrompt
      [] kind = "refinement" -> getRefinementSystemPrompt

\* C24: every chunk-step request carries the summarization system
\* instruction, every consolidation request the consolidation one and the
\* refinement request the refinement one; every request carries the
\* configured temperature and maxCompletionTokens.
C24_RequestParameters ==
    \A r \in inflight \cup ({lastRequest} \ {NoRequest}) :
        /\ r.kind \in {"chunk", "consolidation", "refinement"}
        /\ r.system = SystemOf(r.kind)
        /\ r.temperature = "config.llm.temperature"
        /\ r.max_tokens = maxCompletionTokens
        /\ r.kind = requestLog[r.seq].kind

\* requests of the three kinds have been sent, the refinement is in flight
C24_Witness ==
    /\ pc = "await_refinement"
    /\ lastRequest \in inflight
    /\ lastRequest.system = getRefinementSystemPrompt
    /\ consolidations >= 1
    /\ chunkCalls >= 3

(***************************************************************************)
(* One call of createTokenBasedChunks, followed one loop iteration at a    *)
(* time.                                                                   *)
(***************************************************************************)
\* a line of 478 characters and 478 tokens
MsgTiny == Msg("text", 150, FALSE, 319, "none", 1)

\* a line of 760 characters and 1520 tokens: shorter than the part that a
\* truncation keeps
MsgDouble == Msg("text", 150, FALSE, 601, "none", 2)

ChunkerKinds ==
    {MsgEmpty, MsgTiny, MsgSmall, MsgBig, MsgLong, MsgDense, MsgDouble}

ChunkerLists == ListsOf(ChunkerKinds, MaxChunkerMsgs)

ChunkerInit ==
    /\ PipelineIdle
    /\ FormatIdle
    /\ EventsInit
    /\ PairIdle
    /\ StructuredIdle
    /\ CliIdle
    /\ CommandIdle
    /\ chunker \in { ChunkerCalled(l) : l \in ChunkerLists }

\* messages.map(msg => formatter(msg)).filter(msg => msg !== null)
ChunkerFormats ==
    /\ chunker.stage = "called"
    /\ chunker' = [chunker EXCEPT
                      !.formattedMessages = formattedMessages(chunker.messages),
                      !.stage = "loop"]
    /\ UNCHANGED << pipelineVars, formatVars, eventVars, pairVars,
                    structuredVars, cliVars, commandVars >>

\* one iteration of for (const formattedMsg of formattedMessages)
ChunkerAddsLine ==
    /\ chunker.stage = "loop"
    /\ chunker.pos < Len(chunker.formattedMessages)
    /\ chunker' = [AddLine(chunker, chunker.formattedMessages[chunker.pos + 1])
                      EXCEPT !.pos = chunker.pos + 1]
    /\ UNCHANGED << pipelineVars, formatVars, eventVars, pairVars,
                    structuredVars, cliVars, commandVars >>

\* the last chunk is pushed if it has lines; return chunks
ChunkerReturns ==
    /\ chunker.stage = "loop"
    /\ chunker.pos >= Len(chunker.formattedMessages)
    /\ chunker' = [chunker EXCEPT
                      !.chunks = EmitLast(chunker.chunks, chunker.currentChunk),
                      !.returned = EmitLast(chunker.chunks, chunker.currentChunk),
                      !.stage = "returned"]
    /\ UNCHANGED << pipelineVars, formatVars, eventVars, pairVars,
                    structuredVars, cliVars, commandVars >>

ChunkerNext ==
    \/ ChunkerFormats
    \/ ChunkerAddsLine
    \/ ChunkerReturns

SpecChunker == ChunkerInit /\ [][ChunkerNext]_vars

\* the loop has just run one iteration
AddedLine == chunker.stage = "loop" /\ chunker'.pos = chunker.pos + 1

\* C25: the chunker closes the current chunk exactly when adding the next
\* line would bring the running token total above maxChunkTokens and the
\* current chunk is not empty; and every chunk it returns has a sum of
\* per-line token counts of at most maxChunkTokens, unless the chunk is a
\* single line.
C25_ChunkClosing ==
    [][ /\ AddedLine =>
              LET msgTokens ==
                      chunker.formattedMessages[chunker.pos + 1].tok
                  over == chunker.currentTokenCount + msgTokens > maxChunkTokens
              IN  IF over /\ chunker.currentChunk # << >>
                  THEN /\ chunker'.chunks =
                              Append(chunker.chunks, chunker.currentChunk)
                       /\ Len(chunker'.currentChunk) = 1
                  ELSE /\ chunker'.chunks = chunker.chunks
                       /\ Len(chunker'.currentChunk) =
                              Len(chunker.currentChunk) + 1
        /\ chunker'.stage = "returned" =>
              \A k \in 1..Len(chunker'.returned) :
                  \/ SumTokens(chunker'.returned[k]) <= maxChunkTokens
                  \/ Len(chunker'.returned[k]) = 1
      ]_vars

\* the characters of a line that a truncation keeps
KeptLength(line) == Min(line.len, maxChunkTokens \div 2)

\* C26: a line whose own token count is above 75% of maxChunkTokens is
\* replaced in its chunk by its first floor(0.5 * maxChunkTokens) characters
\* followed by the truncation marker, and the running total is then the sum
\* of the token counts of the lines now in the chunk; a line at or below 75%
\* is stored unchanged.
C26_TruncationInPlace ==
    [][ AddedLine =>
          LET line == chunker.formattedMessages[chunker.pos + 1]
              stored == chunker'.currentChunk[Len(chunker'.currentChunk)]
          IN  /\ IF 100 * line.tok > 75 * maxChunkTokens
                 THEN /\ stored.k = "truncated"
                      /\ stored.id = line.id
                      /\ stored.len = KeptLength(line) + TruncationMarkerLength
                      /\ stored.tok = KeptLength(line) * (line.tok \div line.len)
                                          + TruncationMarkerTokens
                 ELSE stored = line
              /\ chunker'.currentTokenCount = SumTokens(chunker'.currentChunk)
              /\ \A j \in 1..(Len(chunker'.currentChunk) - 1) :
                    chunker'.currentChunk[j] \in Range(chunker.currentChunk)
      ]_vars

\* a chunk holds an unchanged line followed by a truncated one
C26_Witness ==
    /\ chunker.stage = "loop"
    /\ Len(chunker.currentChunk) = 2
    /\ chunker.currentChunk[1].k = "line"
    /\ chunker.currentChunk[2].k = "truncated"
    /\ chunker.currentTokenCount = SumTokens(chunker.currentChunk)

\* the characters of the body that the claim lets a line show
ShownBody(msg) ==
    IF msg.bodyLen > 200 THEN 200 + 3 ELSE msg.bodyLen

\* the characters of the reply clause  [replying to <author>: "<preview>"]
ShownReply(msg) ==
    IF msg.quoted = "none" THEN 0
    ELSE 14 + msg.quotedAuthorLen + 3
            + (IF msg.quotedLen > 60 THEN 60 + 3 ELSE msg.quotedLen) + 2

\* C27: for a message that is not filtered, formatMessageCompact renders the
\* first 200 characters of the body and an ellipsis when the body is longer
\* than 200 characters and the whole body otherwise, renders at most the
\* first 60 characters of the quoted body and an ellipsis in the reply
\* clause, and the reply clause is there if and only if the message has a
\* quotedMsg.
C27_CompactRendering ==
    (~HasNoText(fmsg) /\ fline # NotCalledLine) =>
        /\ fline.k = "line"
        /\ fline.len = 1 + fmsg.timeLen + 2 + fmsg.authorLen + 2
                         + ShownBody(fmsg) + ShownReply(fmsg)

(***************************************************************************)
(* One call of formatMessage on a raw message of the chat library.         *)
(***************************************************************************)
RawMessages ==
    { RawMessage(fromMe, data, author, quoted, body, hasMedia) :
        fromMe \in BOOLEAN, data \in {"none", "plain", "named"},
        author \in {"absent", "present"},
        quoted \in {"none", "full", "anonymous", "nobody"},
        body \in {"missing", "text"}, hasMedia \in BOOLEAN }

\* a raw message without _data has no _data.quotedMsg
WellFormedRaw(msg) == msg.data = "none" => msg.quoted = "none"

\* msg._data && msg._data.quotedMsg
HasQuoted(msg) == msg.data # "none" /\ msg.quoted # "none"

\* msg._data.notifyName is read on a message without _data
formatMessageThrows(msg) == ~msg.fromMe /\ msg.data = "none"

\* the object formatMessage(msg) returns when it does not throw
formatMessage(msg) ==
    Structured("returned",
               IF msg.fromMe THEN "You"
               ELSE IF msg.data = "named" THEN "notifyName"
               ELSE IF msg.author = "present" THEN "author"
               ELSE "Unknown",
               IF ~HasQuoted(msg) THEN "null"
               ELSE IF msg.quoted \in {"full", "nobody"} THEN "notifyName"
               ELSE "Unknown",
               IF ~HasQuoted(msg) THEN "null"
               ELSE IF msg.quoted \in {"full", "anonymous"} THEN "body"
               ELSE "empty",
               msg.body, msg.hasMedia, msg.fromMe)

StructuredInit ==
    /\ PipelineIdle
    /\ FormatIdle
    /\ EventsInit
    /\ PairIdle
    /\ ChunkerIdle
    /\ CliIdle
    /\ CommandIdle
    /\ raw \in { msg \in RawMessages : WellFormedRaw(msg) }
    /\ structured = NotStructured

\* formatMessage(raw) returns
FormatMessageReturns ==
    /\ structured = NotStructured
    /\ ~formatMessageThrows(raw)
    /\ structured' = formatMessage(raw)
    /\ UNCHANGED << raw, pipelineVars, formatVars, eventVars, pairVars,
                    chunkerVars, cliVars, commandVars >>

\* formatMessage(raw) throws a TypeError
FormatMessageThrows ==
    /\ structured = NotStructured
    /\ formatMessageThrows(raw)
    /\ structured' = [NotStructured EXCEPT !.outcome = "TypeError"]
    /\ UNCHANGED << raw, pipelineVars, formatVars, eventVars, pairVars,
                    chunkerVars, cliVars, commandVars >>

StructuredNext ==
    \/ FormatMessageReturns
    \/ FormatMessageThrows

SpecStructured == StructuredInit /\ [][StructuredNext]_vars

\* C28: formatMessage resolves the author of every raw message to "You" when
\* the message is self-sent and otherwise to its display name, else its
\* author field, else "Unknown", also for a raw message without platform
\* data object; quotedMsg is the quoted author and body when a quoted
\* message is present and null otherwise.
C28_AuthorResolution ==
    structured # NotStructured =>
        /\ structured.outcome = "returned"
        /\ raw.fromMe => structured.author = "You"
        /\ (~raw.fromMe /\ raw.data = "named") =>
              structured.author = "notifyName"
        /\ (~raw.fromMe /\ raw.data # "named" /\ raw.author = "present") =>
              structured.author = "author"
        /\ (~raw.fromMe /\ raw.data # "named" /\ raw.author = "absent") =>
              structured.author = "Unknown"
        /\ raw.quoted = "none" =>
              structured.quotedAuthor = "null" /\ structured.quotedBody = "null"
        /\ raw.quoted # "none" =>
              /\ structured.quotedAuthor \in {"notifyName", "Unknown"}
              /\ structured.quotedAuthor = "notifyName" <=>
                     raw.quoted \in {"full", "nobody"}
              /\ structured.quotedBody \in {"body", "empty"}

\* C29: summarizeWithLLM leaves the caller's message list and every message
\* record in it unchanged: chunking, truncation in place and splitting act
\* on the formatted lines and on the chunk list made inside the invocation.
C29_MessagesUnchanged ==
    [][ messages' = messages ]_vars

\* the split pass is over on a list with a long body, after a truncation in
\* place and a split
C29_Witness ==
    /\ pc = "batch"
    /\ \E j \in 1..Len(messages) : messages[j].bodyLen > maxMsgLength
    /\ \E l \in Range(Concat(messageChunks)) : l.k = "truncated"
    /\ Len(messageChunks) > Len(createTokenBasedChunks(messages))

(***************************************************************************)
(* The command line, commands/index.js: promptUser asks '> ' and gives the *)
(* line to processCommand.                                                 *)
(***************************************************************************)
\* the lines a user enters: exit, summarize <file>, an empty line, and a
\* chat query with or without a message count
Commands == {"exit", "summarize", "list", "fetch"}

\* rl.question('> ', ...)
promptUser(c) == [c EXCEPT !.question = "prompt", !.prompts = @ + 1]

\* the ready handler has called promptUser()
CliInit ==
    /\ PipelineIdle
    /\ FormatIdle
    /\ EventsInit
    /\ PairIdle
    /\ ChunkerIdle
    /\ StructuredIdle
    /\ CommandIdle
    /\ cli = promptUser(Cli("none", "idle", 0, << >>))

\* the inputs entered so far
InputCount(c) ==
    Cardinality({ k \in 1..Len(c.history) : c.history[k] \in Commands })

\* a line is entered at '> ': processCommand runs up to its first await
EntersLine ==
    /\ cli.question = "prompt"
    /\ InputCount(cli) < MaxInputs
    /\ \E input \in Commands :
          cli' = [cli EXCEPT
                     !.question = "none",
                     !.history = Append(@, input),
                     !.stage = CASE input = "exit" -> "exited"
                                 [] input = "summarize" -> "await_summarizeFile"
                                 [] input = "list" -> "await_listChats"
                                 [] input = "fetch" -> "await_retrieval"]
    /\ UNCHANGED << pipelineVars, formatVars, eventVars, pairVars,
                    chunkerVars, structuredVars, commandVars >>

\* the handler processCommand awaits resolves
HandlerResolves ==
    /\ cli.stage \in {"await_summarizeFile", "await_listChats",
                      "await_retrieval", "await_summarizeMessages"}
    /\ LET done == [cli EXCEPT !.stage = "idle",
                               !.history = Append(@, "resolved")]
       IN  cli' = CASE cli.stage = "await_summarizeFile" -> done
                    [] cli.stage = "await_listChats" -> done
                    [] cli.stage = "await_retrieval" ->
                         [done EXCEPT !.question = "confirm"]
                    [] cli.stage = "await_summarizeMessages" ->
                         promptUser(done)
    /\ UNCHANGED << pipelineVars, formatVars, eventVars, pairVars,
                    chunkerVars, structuredVars, commandVars >>

\* the handler processCommand awaits rejects: the catch block logs
HandlerRejects ==
    /\ cli.stage \in {"await_summarizeFile", "await_listChats",
                      "await_retrieval", "await_summarizeMessages"}
    /\ LET done == [cli EXCEPT !.stage = "idle",
                               !.history = Append(@, "rejected")]
       IN  cli' = CASE cli.stage = "await_summarizeFile" -> done
                    [] cli.stage = "await_listChats" -> promptUser(done)
                    [] cli.stage = "await_retrieval" -> promptUser(done)
                    [] cli.stage = "await_summarizeMessages" ->
                         promptUser(done)
    /\ UNCHANGED << pipelineVars, formatVars, eventVars, pairVars,
                    chunkerVars, structuredVars, commandVars >>

\* the y/n question is answered
AnswersConfirm ==
    /\ cli.question = "confirm"
    /\ \E answer \in {"yes", "no"} :
          LET answered == [cli EXCEPT !.question = "none",
                                      !.history = Append(@, answer)]
          IN  cli' = IF answer = "yes"
                     THEN [answered EXCEPT !.stage = "await_summarizeMessages"]
                     ELSE promptUser(answered)
    /\ UNCHANGED << pipelineVars, formatVars, eventVars, pairVars,
                    chunkerVars, structuredVars, commandVars >>

CliNext ==
    \/ EntersLine
    \/ HandlerResolves
    \/ HandlerRejects
    \/ AnswersConfirm

SpecCli == CliInit /\ [][CliNext]_vars

\* no command is under way and no y/n answer is awaited
InputHandled == cli.stage = "idle" /\ cli.question # "confirm"

\* C30: in the command loop, once processCommand has handled an input other
\* than exit (summarize <file>, succeeding or failing; an empty line; a
\* fetch that fails; a fetch followed by a y/n answer), the '> ' prompt is
\* issued again, exactly once per handled input.
C30_PromptIssuedAgain ==
    InputHandled =>
        /\ cli.question = "prompt"
        /\ cli.prompts = InputCount(cli) + 1

(***************************************************************************)
(* One message_create handler of a message that carries '!summarize',      *)
(* events.js: the count it parses, announces and fetches with.             *)
(***************************************************************************)
\* commandParts[1], the second part of the body split at white space; ""
\* when the body has one part only
CommandArgs ==
    {"", "abc", "-5", "0", "7", "1000", "1001", "5000", "1e3", "Infinity"}

\* Number(text), the conversion that isNaN applies to a string
Number(text) ==
    CASE text = "-5" -> Integer(0 - 5)
      [] text = "0" -> Integer(0)
      [] text = "7" -> Integer(7)
      [] text = "1000" -> Integer(1000)
      [] text = "1001" -> Integer(1001)
      [] text = "5000" -> Integer(5000)
      [] text = "1e3" -> Integer(1000)
      [] text = "Infinity" -> PlusInfinity
      [] text = "" -> Integer(0)
      [] OTHER -> NaN

\* isNaN(commandParts[1])
isNaN(text) == Number(text) = NaN

\* parseInt(text): the value of the longest prefix that is a decimal integer,
\* NaN when there is none
parseInt(text) ==
    CASE text = "-5" -> Integer(0 - 5)
      [] text = "0" -> Integer(0)
      [] text = "7" -> Integer(7)
      [] text = "1000" -> Integer(1000)
      [] text = "1001" -> Integer(1001)
      [] text = "5000" -> Integer(5000)
      [] text = "1e3" -> Integer(1)
      [] OTHER -> NaN

\* messageCount <= 0 and messageCount > 1000: both false for NaN
AtMostZero(n) == n.kind = "int" /\ n.val <= 0

Above1000(n) == n.kind = "inf" \/ (n.kind = "int" /\ n.val > 1000)

\* let messageCount = 100; if (commandParts.length > 1 &&
\* !isNaN(commandParts[1])) { messageCount = parseInt(commandParts[1]);
\* if (messageCount <= 0) messageCount = 1;
\* if (messageCount > 1000) messageCount = 1000; }
messageCount(arg) ==
    IF arg # "" /\ ~isNaN(arg)
    THEN LET parsed == parseInt(arg)
             raised == IF AtMostZero(parsed) THEN Integer(1) ELSE parsed
         IN  IF Above1000(raised) THEN Integer(1000) ELSE raised
    ELSE Integer(100)

\* h reaches a stage and is suspended there: message.reply(`Generating
\* summary of the last ${messageCount} messages...`) at the acknowledgement,
\* chat.fetchMessages({ limit: messageCount }) at the fetch
Reach(h, stage) ==
    [h EXCEPT !.pc = stage,
              !.announced = IF stage = "cmd_ack"
                            THEN messageCount(h.arg) ELSE @,
              !.limit = IF stage = "cmd_fetch"
                        THEN messageCount(h.arg) ELSE @]

\* the handler has run up to its first await: message.getChat() of the
\* auto-summary when the message brought the counter to the threshold,
\* of the command otherwise
CommandInit ==
    /\ PipelineIdle
    /\ FormatIdle
    /\ EventsInit
    /\ PairIdle
    /\ ChunkerIdle
    /\ StructuredIdle
    /\ CliIdle
    /\ \E arg \in CommandArgs, auto \in BOOLEAN :
          command = CommandHandler(arg, auto,
                                   IF auto THEN AutoStages[1] ELSE CmdStages[1],
                                   NotYet, NotYet)

CommandRunning == command.pc \notin {"none", Finished}

\* the await the handler is suspended at resolves
CommandResolves ==
    /\ CommandRunning
    /\ command' = Reach(command, NextStage(command))
    /\ UNCHANGED << pipelineVars, formatVars, eventVars, pairVars,
                    chunkerVars, structuredVars, cliVars >>

\* the await the handler is suspended at rejects
CommandRejects ==
    /\ CommandRunning
    /\ CanReject(command)
    /\ command' = Reach(command, CatchStage(command))
    /\ UNCHANGED << pipelineVars, formatVars, eventVars, pairVars,
                    chunkerVars, structuredVars, cliVars >>

CommandNext ==
    \/ CommandResolves
    \/ CommandRejects

SpecCommand == CommandInit /\ [][CommandNext]_vars

\* the claimed count: 100 without a numeric argument, otherwise the value of
\* the argument brought into 1..1000
ClampedArgument(arg) ==
    IF arg = "" \/ isNaN(arg) THEN 100
    ELSE LET n == Number(arg)
         IN  IF n.kind = "inf" THEN 1000
             ELSE IF n.val <= 0 THEN 1
             ELSE IF n.val > 1000 THEN 1000
             ELSE n.val

\* C31: the number of messages the !summarize handler fetches is 100 when the
\* command has no numeric argument and otherwise the argument clamped into
\* 1..1000; the count announced in the acknowledgement is the fetch limit.
C31_FetchCount ==
    /\ command.announced # NotYet =>
          command.announced = Integer(ClampedArgument(command.arg))
    /\ command.limit # NotYet =>
          /\ command.limit = Integer(ClampedArgument(command.arg))
          /\ command.limit = command.announced

\* C32: when the chunk sequence is empty (empty message list, or every
\* message filtered out) summarizeWithLLM issues no completion request at
\* all and returns the empty string, not the fallback string.
C32_EmptyInputNoRequest ==
    AllFiltered(messages) =>
        /\ requestCount = 0
        /\ requestLog = << >>
        /\ inflight = {}
        /\ lastRequest = NoRequest
        /\ pc = "done" => result = EmptyString /\ result # FallbackString

\* summarizeWithLLM has returned for a list of messages that are all
\* filtered out
C32_Witness ==
    /\ pc = "done"
    /\ Len(messages) >= 2
    /\ AllFiltered(messages)
    /\ messageChunks = << >>
    /\ result = EmptyString

\* C33: a completion failure never reaches a caller as an exception:
\* whenever summarizeWithLLM returns it returns a string (a summary, the
\* empty string or the fallback), and after a completion failure what the
\* handlers get and send on is the fallback text.
C33_FailureReturnsString ==
    pc = "done" =>
        /\ result # NotReturned
        /\ result # Undefined
        /\ failure # "none" => result = FallbackString

\* the positions of the chunk-step requests in the log of requests
ChunkRequests == { k \in 1..Len(requestLog) : requestLog[k].kind = "chunk" }

\* the chunks (0-based indices) that were the chatText of a request
RequestedChunks == { requestLog[k].chunk : k \in ChunkRequests }

\* C34: in any run no chunk is the chatText of more than one chunk-step
\* request; in a run with no completion failure and no prompt-size abort
\* every chunk left by the split pass is the chatText of exactly one
\* chunk-step request, so the number of chunk-step requests equals the chunk
\* count.
C34_OneRequestPerChunk ==
    /\ \A a, b \in ChunkRequests :
          requestLog[a].chunk = requestLog[b].chunk => a = b
    /\ chunkCalls = Cardinality(ChunkRequests)
    /\ RequestedChunks \subseteq 0..(Len(messageChunks) - 1)
    /\ ((BatchLoopOver \/ pc = "done") /\ failure = "none"
            /\ skippedChunks = {}) =>
          /\ RequestedChunks = 0..(Len(messageChunks) - 1)
          /\ chunkCalls = Len(messageChunks)

\* a run over five chunks has returned with neither failure nor abort
C34_Witness ==
    /\ pc = "done"
    /\ failure = "none"
    /\ skippedChunks = {}
    /\ Len(messageChunks) = 5
    /\ chunkCalls = 5

\* C35: for a threshold of at least 1, after the synchronous part of every
\* message_create handler the counter of the message's chat is an integer
\* with 0 <= counter < threshold, and handling a message of one chat never
\* changes the counter of any other chat.
C35_CounterRange ==
    [][ /\ \A c \in DOMAIN messageCounters' :
              /\ messageCounters'[c] \in Nat
              /\ messageCounters'[c] < autoSummaryThreshold
        /\ \A c \in Chats :
              received'[c] = received[c] =>
                  /\ c \in DOMAIN messageCounters' <=> c \in DOMAIN messageCounters
                  /\ c \in DOMAIN messageCounters =>
                        messageCounters'[c] = messageCounters[c]
        /\ \A c \in Chats :
              received'[c] # received[c] =>
                  /\ c \in DOMAIN messageCounters'
                  /\ \A d \in Chats \ {c} : received'[d] = received[d]
      ]_vars

\* one chat has just been reset by its trigger while the other chat is one
\* message short of the threshold
C35_Witness ==
    \E c, d \in Chats :
        /\ c # d
        /\ triggered[c] >= 1
        /\ messageCounters[c] = 0
        /\ d \in DOMAIN messageCounters
        /\ messageCounters[d] = autoSummaryThreshold - 1
        /\ handlers # {}

\* the handler h is the one that takes the step and it was in the
\* auto-summary
LeavesAutoStage(h) ==
    /\ h \in handlers
    /\ h.pc \in Range(AutoStages)
    /\ h \notin handlers'

\* C36: a failure inside the auto-summary path is caught inside the handler:
\* the chat's counter stays reset with no retry of that trigger, and the same
\* handler still goes on to process a !summarize command carried by the same
\* message, after the auto-summary attempt and never concurrently with it.
C36_AutoFailureCaught ==
    [][ /\ \A h \in handlers :
              LeavesAutoStage(h) =>
                  /\ messageCounters' = messageCounters
                  /\ triggered' = triggered
                  /\ received' = received
                  /\ \A g \in handlers' \ handlers :
                        /\ g.id = h.id
                        /\ g.autoError => g.pc = CmdStages[1]
                        /\ g.pc \in Range(AutoStages) =>
                              /\ ~g.autoError
                              /\ IndexOf(AutoStages, g.pc) =
                                     IndexOf(AutoStages, h.pc) + 1
                  /\ h.cmd => \E g \in handlers' : g.id = h.id
        /\ \A g \in handlers' :
              /\ g.autoError => g.cmd /\ g.pc \notin Range(AutoStages)
              /\ \A f \in handlers' : f.id = g.id => f = g
      ]_vars

\* after a failed auto-summary the handler has gone on with the command of
\* the same message, and the chat's counter is still 0
C36_Witness ==
    \E h \in handlers :
        /\ h.autoError
        /\ h.cmd
        /\ h.pc = "cmd_ack"
        /\ messageCounters[h.chat] = 0
        /\ triggered[h.chat] = 1

(***************************************************************************)
(* The two copies of summarizeWithLLM side by side: invocation 1 builds    *)
(* its prompts through the prompt modules (prompts/index.js), invocation 2 *)
(* is the copy of services/llm.js with the prompts written inline.  Both   *)
(* get the same message list and the same deterministic client.            *)
(***************************************************************************)
\* variant: the continuation text takes its two inputs in the other order
InlineChunkPrompt_SwappedInputs(idx, summary, chatText) ==
    IF idx = 0 /\ summary = EmptyString
    THEN << Atom("initial-head", 0, 1171, 240) >> \o Str(chatText)
             \o << Atom("initial-tail", 0, 10, 3) >>
    ELSE << Atom("continuation-head", 0, 65, 10) >> \o Str(chatText)
             \o << Atom("continuation-middle", 0, 640, 120) >>
             \o Str(summary)
             \o << Atom("continuation-tail", 0, 18, 4) >>

\* if (i === 0 && batchSummary === '') prompt = `You are analyzing ...
\* ${chatText} ...`; else prompt = `Continue analyzing ... ${batchSummary}
\* ... ${chatText} ...`: the fixed stretches are character for character
\* those of prompts/initial.js and prompts/continuation.js
InlineChunkPrompt(idx, summary, chatText) ==
    IF idx = 0 /\ summary = EmptyString
    THEN << Atom("initial-head", 0, 1171, 240) >> \o Str(chatText)
             \o << Atom("initial-tail", 0, 10, 3) >>
    ELSE << Atom("continuation-head", 0, 65, 10) >> \o Str(summary)
             \o << Atom("continuation-middle", 0, 640, 120) >>
             \o Str(chatText)
             \o << Atom("continuation-tail", 0, 18, 4) >>

\* const consolidationPrompt = `I have two summaries ... ${fullSummary} ...
\* ${batchSummary} ...`
InlineConsolidationPrompt(full, batch) ==
    << Atom("consolidation-head", 0, 825, 165) >> \o Str(full)
        \o << Atom("consolidation-middle", 0, 18, 4) >> \o Str(batch)
        \o << Atom("consolidation-tail", 0, 19, 4) >>

\* const finalRefinementPrompt = `You're creating a final executive summary
\* ... ${fullSummary} ...`
InlineRefinementPrompt(full) ==
    << Atom("refinement-head", 0, 860, 180) >> \o Str(full)
        \o << Atom("refinement-tail", 0, 18, 4) >>

\* one step of the inline copy between two awaits; the system instructions
\* are the string literals of the three request bodies
InlineAdvance(L) ==
    CASE L.pc = "called" ->
           [L EXCEPT !.messageChunks = createTokenBasedChunks(L.messages),
                     !.i = 0, !.pc = "split"]
      [] L.pc = "split" ->
           IF L.i >= Len(L.messageChunks)
           THEN [L EXCEPT !.pc = "batch", !.batchIndex = 0,
                          !.fullSummary = EmptyString]
           ELSE IF countTokens(join(L.messageChunks[L.i + 1])) > 2000
           THEN [L EXCEPT !.messageChunks =
                     Splice(@, L.i, SplitChunk(L.messageChunks[L.i + 1]))]
           ELSE [L EXCEPT !.i = @ + 1]
      [] L.pc = "batch" ->
           IF L.batchIndex < (Len(L.messageChunks) + 1) \div 2
           THEN [L EXCEPT !.batchSummary = EmptyString, !.i = 0, !.pc = "chunk"]
           ELSE [L EXCEPT !.pc = "refine"]
      [] L.pc = "chunk" ->
           IF L.i >= Len(BatchChunksOf(L))
           THEN [L EXCEPT !.pc = "combine"]
           ELSE LET chatText == join(BatchChunksOf(L)[L.i + 1])
                    prompt == InlineChunkPrompt(L.i, L.batchSummary, chatText)
                IN  IF countTokens(prompt) > 3800
                    THEN [L EXCEPT !.pc = "combine"]
                    ELSE Awaiting(L, IF L.i = 0 /\ L.batchSummary = EmptyString
                                     THEN "initial" ELSE "continuation",
                                  "summarization", prompt, "await_chunk")
      [] L.pc = "combine" ->
           IF L.fullSummary = EmptyString
           THEN BatchEnd([L EXCEPT !.fullSummary = L.batchSummary])
           ELSE Awaiting(L, "consolidation", "consolidation",
                         InlineConsolidationPrompt(L.fullSummary,
                                                   L.batchSummary),
                         "await_consolidation")
      [] L.pc = "refine" ->
           IF Len(L.messageChunks) > 2
           THEN Awaiting(L, "refinement", "refinement",
                         InlineRefinementPrompt(L.fullSummary),
                         "await_refinement")
           ELSE [L EXCEPT !.pc = "return"]
      [] L.pc = "return" ->
           [L EXCEPT !.result = L.fullSummary, !.pc = "done"]

RECURSIVE InlineRunToAwait(_)
InlineRunToAwait(L) ==
    IF Suspended(L) THEN L ELSE InlineRunToAwait(InlineAdvance(L))

\* the inline copy goes on from its await to the next one
InlineResume(L) == InlineRunToAwait(Settle(L))

\* both copies have been called with the same message list
EquivInit ==
    /\ ChunkerIdle
    /\ StructuredIdle
    /\ CliIdle
    /\ CommandIdle
    /\ PipelineIdle
    /\ FormatIdle
    /\ EventsInit
    /\ \E l \in PairLists : inv = [k \in Invocations |-> Called(l)]

\* the copy with the prompt modules runs to its next await
ModulesResumes ==
    /\ inv[1].pc # "done"
    /\ inv' = Store(inv, 1, Resume(inv[1]))
    /\ UNCHANGED << pipelineVars, formatVars, eventVars,
                    chunkerVars, structuredVars, cliVars, commandVars >>

\* the copy with the inline prompts runs to its next await
InlineResumes ==
    /\ inv[2].pc # "done"
    /\ inv' = Store(inv, 2, InlineResume(inv[2]))
    /\ UNCHANGED << pipelineVars, formatVars, eventVars,
                    chunkerVars, structuredVars, cliVars, commandVars >>

EquivNext ==
    \/ ModulesResumes
    \/ InlineResumes

SpecEquiv == EquivInit /\ [][EquivNext]_vars

\* C37: the pipeline that builds its prompts through the prompt-template
\* modules and the one that builds them inline are equivalent: for the same
\* message list and the same completion responses they issue the same
\* sequence of requests (same system instruction, same user prompt) and
\* return the same string.
C37_PipelinesEquivalent ==
    /\ inv[1].messages = inv[2].messages
    /\ \/ IsPrefix(inv[1].requests, inv[2].requests)
       \/ IsPrefix(inv[2].requests, inv[1].requests)
    /\ (Len(inv[1].requests) = Len(inv[2].requests)
            /\ inv[1].pc = inv[2].pc) =>
          /\ inv[1].batchSummary = inv[2].batchSummary
          /\ inv[1].fullSummary = inv[2].fullSummary
    /\ (inv[1].pc = "done" /\ inv[2].pc = "done") =>
          /\ inv[1].requests = inv[2].requests
          /\ inv[1].result = inv[2].result

\* both copies have returned after chunk steps with both templates, a
\* consolidation and a refinement
C37_Witness ==
    /\ inv[1].pc = "done"
    /\ inv[2].pc = "done"
    /\ \A t \in {"initial", "continuation", "consolidation", "refinement"} :
          \E k \in 1..Len(inv[2].requests) : inv[2].requests[k].template = t
    /\ inv[2].result # EmptyString

====
